---- MODULE Spec2Model ----
(***************************************************************************)
(* A model of mcp-base: the tool dispatch layer of McpServerBase           *)
(* (src/mcp_base/server.py) with the recording metrics and tracing         *)
(* collectors (src/mcp_base/test_observability.py), and the activity       *)
(* timeline of WidgetServer (src/mcp_base/widget_server.py).               *)
(*                                                                         *)
(* Python strings that are built by concatenation are sequences of their   *)
(* pieces, so that "carries the string form of e" is a statement about a   *)
(* subsequence and the empty string is the empty sequence.                 *)
(***************************************************************************)
EXTENDS Integers, Sequences, FiniteSets, TLC

\* Number of tool requests one behaviour contains (each may overlap the others).
MaxReq == 2

Requests == 1..MaxReq

VARIABLES
    handlers,              \* McpServerBase._handlers: tool name -> handler class
    enable_observability,  \* McpServerBase.enable_observability
    pc,                    \* where each request is suspended
    request,               \* the inputs of each request
    gen,                   \* the frame of the SSE generator of each request
    response,              \* what the client of each request has received
    metrics,               \* the TestMetricsCollector
    tracing,               \* the TestTracingCollector
    execute_tool_calls,    \* history: requests for which _execute_tool was called
    handle_calls,          \* history: requests whose handler's handle() was called
    handler_outcome        \* history: what handle() did for each request

VARIABLES
    providers,             \* WidgetServer._providers: provider name -> provider class
    activity_timeline,     \* widget_server._activity_timeline, oldest record first
    widget_response,       \* the answer to the last request to a widget endpoint
    appended               \* history: every record appended to _activity_timeline

widgetVars == <<providers, activity_timeline, widget_response, appended>>

dispatchVars == <<handlers, enable_observability, pc, request, gen, response,
                  metrics, tracing, execute_tool_calls, handle_calls, handler_outcome>>

VARIABLES
    injector_config,       \* the configuration of the injector of the renderer
    view_cache,            \* WidgetRenderer._view_cache
    instances,             \* number of view instances made so far
    get_view_log,          \* history: resolved context and view of each get_view
    render_result          \* the arguments and the result of the last call

rendererVars == <<injector_config, view_cache, instances, get_view_log, render_result>>

VARIABLES
    validate_result,       \* the handler and the outcome of the last validate()
    mappings,              \* ExceptionMapper._mappings
    custom_handlers,       \* ExceptionMapper._custom_handlers
    registered,            \* history: the register calls, in order
    mcp_error              \* the argument and the result of the last to_mcp_error

mapperVars == <<mappings, custom_handlers, registered, mcp_error>>

VARIABLES
    discovered             \* the configuration and the result of the last discovery

libraryVars == <<validate_result, mapperVars, discovered>>

----------------------------------------------------------------------------
(* Values *)

None == "None"
Null == "null"

\* str(e)[:n] style concatenations are sequences of pieces.
NoException == [type |-> "", status_code |-> 0, detail |-> << >>]

HTTPException(status_code, detail) ==
    [type |-> "HTTPException", status_code |-> status_code, detail |-> detail]

IsHTTPException(e) == e.type = "HTTPException"

\* str(e): the message of an ordinary exception; "<status>: <detail>" for an
\* HTTPException.
Str(e) ==
    IF IsHTTPException(e)
    THEN <<ToString(e.status_code), ": ">> \o e.detail
    ELSE e.detail

\* The exceptions a handler's handle() raises in this model.
RaisedExceptions ==
    { [type |-> "ValueError", status_code |-> 0, detail |-> <<"Intentional failure">>],
      [type |-> "RuntimeError", status_code |-> 0, detail |-> << >>],
      HTTPException(403, <<"Forbidden">>) }

\* Content items a handler returns.  py is the Python type of the item, d its
\* attributes (an object) or its entries (a dict), str its str().
TextContentObj(text) ==
    [py |-> "object", d |-> [type |-> "text", text |-> text], str |-> "TextContent(...)"]
PlainObj(s) == [py |-> "object", d |-> << >>, str |-> s]
DictItem(d) == [py |-> "dict", d |-> d, str |-> "{...}"]

\* A value json.dumps cannot encode.
Bytes == "<bytes>"

ReturnValues ==
    { << >>,
      <<TextContentObj("Echo: hello"), DictItem([data |-> "b"])>>,
      <<PlainObj("raw"), DictItem([type |-> "image", text |-> Bytes]),
        TextContentObj("three")>> }

HandlerClasses == {"EchoHandlerImpl", "FailingHandlerImpl"}

\* What handle() of a handler class may do: return a value or raise.
Returns(v) == [kind |-> "returned", value |-> v, exc |-> NoException]
Raises(e) == [kind |-> "raised", value |-> << >>, exc |-> e]
NoOutcome == [kind |-> "none", value |-> << >>, exc |-> NoException]

Handle(handler_class) ==
    IF handler_class = "EchoHandlerImpl"
    THEN {Returns(v) : v \in ReturnValues}
    ELSE {Raises(e) : e \in RaisedExceptions}

ToolNames == {"echo", "fail", "missing"}
Framings == {"simple", "sse", "jsonrpc"}
RequestIds == {"req-7"}
NoField == "<absent>"

----------------------------------------------------------------------------
(* TestTracingCollector *)

NoDescription == [is_none |-> TRUE, s |-> << >>]
Description(s) == [is_none |-> FALSE, s |-> s]

NoSpan ==
    [name |-> << >>, attributes |-> {}, status |-> None,
     status_description |-> NoDescription, events |-> << >>, end_time |-> FALSE]

\* trace_span up to its yield: a new span is pushed on _active_spans.
TraceSpanEnter(T, r, name, attributes) ==
    [T EXCEPT !.span[r] = [NoSpan EXCEPT !.name = name, !.attributes = attributes],
              !.active_spans = Append(@, r)]

\* trace_span after its yield: the span of this context manager gets its
\* status, is appended to spans, and the LAST active span is popped.
TraceSpanExit(T, r, raised, e) ==
    LET T1 == [T EXCEPT !.span[r].status = IF raised THEN "ERROR" ELSE "OK",
                        !.span[r].status_description =
                            IF raised THEN Description(Str(e)) ELSE @,
                        !.span[r].end_time = TRUE]
    IN [T1 EXCEPT !.spans = Append(@, r),
                  !.active_spans = SubSeq(@, 1, Len(@) - 1)]

add_span_attribute(T, key) ==
    IF T.active_spans # << >>
    THEN [T EXCEPT !.span[T.active_spans[Len(T.active_spans)]].attributes = @ \cup {key}]
    ELSE T

add_span_event(T, name) ==
    IF T.active_spans # << >>
    THEN [T EXCEPT !.span[T.active_spans[Len(T.active_spans)]].events = Append(@, name)]
    ELSE T

set_span_status(T, status_code, description) ==
    IF T.active_spans # << >>
    THEN [T EXCEPT !.span[T.active_spans[Len(T.active_spans)]].status = status_code,
                   !.span[T.active_spans[Len(T.active_spans)]].status_description =
                       description]
    ELSE T

----------------------------------------------------------------------------
(* TestMetricsCollector *)

\* track_tool_execution up to its yield.
TrackToolExecutionEnter(M, r, tool_name) ==
    [M EXCEPT !.active_tool_executions[tool_name] = r]

\* TrackToolExecutionExit without the finally clause: a failed execution is
\* not appended.
TrackToolExecutionExitNoFinally(M, r, tool_name, raised, e) ==
    IF raised
    THEN [M EXCEPT !.active_tool_executions[tool_name] = 0]
    ELSE [M EXCEPT !.tool_executions =
                       Append(@, [tool_name |-> tool_name, status |-> "success",
                                  error_type |-> None]),
                   !.active_tool_executions[tool_name] = 0]

\* track_tool_execution after its yield: one ToolExecution is appended.
TrackToolExecutionExit(M, r, tool_name, raised, e) ==
    [M EXCEPT !.tool_executions =
                  Append(@, [tool_name |-> tool_name,
                             status |-> IF raised THEN "error" ELSE "success",
                             error_type |-> IF raised THEN e.type ELSE None]),
              !.active_tool_executions[tool_name] = 0]

record_http_request(M, method, endpoint, status_code, error_type) ==
    [M EXCEPT !.http_requests =
                  Append(@, [method |-> method, endpoint |-> endpoint,
                             status_code |-> status_code, error_type |-> error_type])]

----------------------------------------------------------------------------
(* PrometheusMetricsCollector, with the prometheus client available *)

Statuses == {"success", "error"}

\* PrometheusTrackToolExecutionExit with the fault of decrementing the gauge
\* only when the execution succeeded.
PrometheusTrackToolExecutionExitNoDec(M, tool_name, raised) ==
    LET status == IF raised THEN "error" ELSE "success" IN
    [M EXCEPT !.errors_total[tool_name] = IF raised THEN @ + 1 ELSE @,
              !.active_requests[tool_name] = IF raised THEN @ ELSE @ - 1,
              !.requests_total[tool_name][status] = @ + 1,
              !.duration_observations[tool_name][status] = @ + 1]

\* track_tool_execution up to its yield: the gauge of the tool is incremented.
PrometheusTrackToolExecutionEnter(M, tool_name) ==
    [M EXCEPT !.active_requests[tool_name] = @ + 1]

\* track_tool_execution after its yield: the error counter when an Exception
\* came out of the block; in the finally clause the gauge is decremented, the
\* request counter incremented and the duration observed, under the status.
PrometheusTrackToolExecutionExit(M, tool_name, raised) ==
    LET status == IF raised THEN "error" ELSE "success" IN
    [M EXCEPT !.errors_total[tool_name] = IF raised THEN @ + 1 ELSE @,
              !.active_requests[tool_name] = @ - 1,
              !.requests_total[tool_name][status] = @ + 1,
              !.duration_observations[tool_name][status] = @ + 1]

\* PrometheusMetricsCollector.record_http_request
PrometheusRecordHttpRequest(M, status_code) ==
    [M EXCEPT !.http_requests_total = @ + 1,
              !.http_request_duration_observations = @ + 1,
              !.http_errors_total = IF status_code >= 400 THEN @ + 1 ELSE @]

\* The metrics module after import, with the given collector installed by
\* set_metrics_collector (or by default).
NoMetrics(collector) ==
    [collector |-> collector,
     tool_executions |-> << >>, http_requests |-> << >>,
     active_tool_executions |-> [n \in {"echo", "fail"} |-> 0],
     active_requests |-> [n \in {"echo", "fail"} |-> 0],
     requests_total |-> [n \in {"echo", "fail"} |-> [st \in Statuses |-> 0]],
     duration_observations |-> [n \in {"echo", "fail"} |-> [st \in Statuses |-> 0]],
     errors_total |-> [n \in {"echo", "fail"} |-> 0],
     http_requests_total |-> 0, http_request_duration_observations |-> 0,
     http_errors_total |-> 0]

----------------------------------------------------------------------------
(* McpServerBase._execute_tool *)

\* NotFound with the fault of reporting an unknown tool as an internal error.
NotFoundAsInternalError(tool_name) ==
    HTTPException(500, <<"Tool '", tool_name, "' not found">>)

NotFound(tool_name) == HTTPException(404, <<"Tool '", tool_name, "' not found">>)

\* ConvertContent with the fault of ignoring the attributes of the object.
ConvertContentIgnoresAttributes(content) ==
    IF content.py = "dict"
    THEN content.d
    ELSE [type |-> "text", text |-> content.str]

\* Lines 399-414: each item the handler returned becomes one result, in order;
\* a dict is appended as it is, any other object becomes {type, text}.
ConvertContent(content) ==
    IF content.py = "dict"
    THEN content.d
    ELSE [type |-> IF "type" \in DOMAIN content.d THEN content.d["type"] ELSE "text",
          text |-> IF "text" \in DOMAIN content.d THEN content.d["text"] ELSE content.str]

ConvertResults(text_contents) ==
    [i \in 1..Len(text_contents) |-> ConvertContent(text_contents[i])]

\* What _execute_tool hands to its caller: a result list, or a raised exception.
Returned(results) == [ok |-> TRUE, results |-> results, exc |-> NoException]
Raised(e) == [ok |-> FALSE, results |-> << >>, exc |-> e]

\* TranslateException without the "except HTTPException: raise" clause.
TranslateExceptionAlways500(e) ==
    HTTPException(500, <<"Tool execution failed: ">> \o Str(e))

\* The exception _execute_tool raises for an exception that left the with
\* block: an HTTPException as it is, any other Exception as a 500.
TranslateException(e) ==
    IF IsHTTPException(e)
    THEN e
    ELSE HTTPException(500, <<"Tool execution failed: ">> \o Str(e))

\* Lines 372-393: the span and the metrics context are entered, the span
\* attributes are added.
ExecuteToolEnterTracing(T, r, tool_name) ==
    IF enable_observability
    THEN add_span_attribute(
             add_span_attribute(
                 TraceSpanEnter(T, r, <<"mcp.tool.", tool_name>>, {"tool_name", "arguments"}),
                 "mcp.tool.name"),
             "mcp.tool.arguments_count")
    ELSE T

ExecuteToolEnterMetrics(M, r, tool_name) ==
    IF ~enable_observability THEN M
    ELSE IF M.collector = "PrometheusMetricsCollector"
    THEN PrometheusTrackToolExecutionEnter(M, tool_name)
    ELSE TrackToolExecutionEnter(M, r, tool_name)

\* Lines 416-432 for the tracing collector: set_span_status("OK") inside the
\* with block and the span's exit; or the span's exit with the exception
\* followed by the calls of the except clause.
ExecuteToolExitTracing(T, r, outcome) ==
    IF ~enable_observability THEN T
    ELSE IF outcome.kind = "returned"
    THEN TraceSpanExit(set_span_status(T, "OK", NoDescription), r, FALSE, NoException)
    ELSE IF IsHTTPException(outcome.exc)
    THEN set_span_status(TraceSpanExit(T, r, TRUE, outcome.exc),
                         "ERROR", Description(<<"HTTP error">>))
    ELSE add_span_event(
             set_span_status(TraceSpanExit(T, r, TRUE, outcome.exc),
                             "ERROR", Description(Str(outcome.exc))),
             "exception")

\* The metrics context is the inner one of the with statement: it sees the
\* exception the handler raised.
ExecuteToolExitMetrics(M, r, tool_name, outcome) ==
    IF ~enable_observability THEN M
    ELSE IF M.collector = "PrometheusMetricsCollector"
    THEN PrometheusTrackToolExecutionExit(M, tool_name, outcome.kind = "raised")
    ELSE TrackToolExecutionExit(M, r, tool_name, outcome.kind = "raised", outcome.exc)

ExecuteToolResult(outcome) ==
    IF outcome.kind = "returned"
    THEN Returned(ConvertResults(outcome.value))
    ELSE Raised(TranslateException(outcome.exc))

----------------------------------------------------------------------------
(* The three endpoints *)

Endpoint(tool_name, suffix) == <<"/", tool_name>> \o suffix

HttpRecord(M, endpoint, status_code, error_type) ==
    IF ~enable_observability THEN M
    ELSE IF M.collector = "PrometheusMetricsCollector"
    THEN PrometheusRecordHttpRequest(M, status_code)
    ELSE record_http_request(M, "POST", endpoint, status_code, error_type)

NoResponse == [status_code |-> 0, detail |-> << >>, body |-> << >>,
               frames |-> << >>, closed |-> FALSE]

\* FastAPI's answer to a raised HTTPException.
HttpError(e) == [NoResponse EXCEPT !.status_code = e.status_code, !.detail = e.detail,
                                   !.closed = TRUE]
JsonResponse(body) == [NoResponse EXCEPT !.status_code = 200, !.body = body, !.closed = TRUE]

\* execute_tool_simple, lines 317-330, once _execute_tool has ended with d.
SimpleResponse(d) ==
    IF d.ok THEN JsonResponse([result |-> d.results]) ELSE HttpError(d.exc)

SimpleHttpRecord(M, tool_name, d) ==
    IF d.ok
    THEN HttpRecord(M, Endpoint(tool_name, << >>), 200, None)
    ELSE HttpRecord(M, Endpoint(tool_name, << >>), d.exc.status_code, "http_error")

\* MethodMismatch with the fault of requiring the method field.
MethodMismatchWhenAbsent(method, tool_name) == method # tool_name

\* execute_tool_jsonrpc, line 274: "method" in body and body["method"] != tool_name
MethodMismatch(method, tool_name) == method # NoField /\ method # tool_name

\* execute_tool_jsonrpc, lines 282-304.
INTERNAL_ERROR == -32603

\* JsonRpcEnvelope with the fault of answering an error without the request's id.
JsonRpcEnvelopeErrorWithoutId(request_id, d) ==
    IF d.ok
    THEN [jsonrpc |-> "2.0", id |-> request_id, result |-> d.results]
    ELSE [jsonrpc |-> "2.0", id |-> Null,
          error |-> [code |-> INTERNAL_ERROR, message |-> Str(d.exc)]]

JsonRpcEnvelope(request_id, d) ==
    IF d.ok
    THEN [jsonrpc |-> "2.0", id |-> request_id, result |-> d.results]
    ELSE [jsonrpc |-> "2.0", id |-> request_id,
          error |-> [code |-> INTERNAL_ERROR, message |-> Str(d.exc)]]

JsonRpcResponse(request_id, d) == JsonResponse(JsonRpcEnvelope(request_id, d))

JsonRpcHttpRecord(M, tool_name, d) ==
    IF d.ok
    THEN HttpRecord(M, Endpoint(tool_name, <<"/jsonrpc">>), 200, None)
    ELSE HttpRecord(M, Endpoint(tool_name, <<"/jsonrpc">>), 500, "tool_error")

\* body.get("id")
GetId(id) == IF id = NoField THEN Null ELSE id

\* execute_tool_sse, generate(): the frames.
DoneFrame == [kind |-> "done", payload |-> [data |-> "[DONE]"]]
DataFrame(result) == [kind |-> "data", payload |-> result]
ErrorFrame(s) == [kind |-> "error", payload |-> [error |-> s]]

\* json.dumps(result) raises TypeError for a value it cannot encode.
JsonSerializable(result) == \A k \in DOMAIN result : result[k] # Bytes
NotSerializable == <<"Object of type bytes is not JSON serializable">>

\* The frame generate() yields when it is resumed with i results already sent.
NextFrame(results, i) ==
    IF i < Len(results)
    THEN IF JsonSerializable(results[i + 1])
         THEN DataFrame(results[i + 1])
         ELSE ErrorFrame(NotSerializable)
    ELSE DoneFrame

\* IsTerminal with the fault of going on after an error frame.
IsTerminalOnlyDone(frame) == frame.kind = "done"

\* generate() ends after it has yielded [DONE] or an error.
IsTerminal(frame) == frame.kind \in {"done", "error"}

----------------------------------------------------------------------------
(* The tool server: state and actions *)

NoRequest == [framing |-> "", tool_name |-> "", method |-> NoField, id |-> NoField]
NoGen == [results |-> << >>, i |-> 0]

DispatchInitWith(collector) ==
    /\ handlers = ("echo" :> "EchoHandlerImpl") @@ ("fail" :> "FailingHandlerImpl")
    /\ enable_observability \in BOOLEAN
    /\ pc = [r \in Requests |-> "idle"]
    /\ request = [r \in Requests |-> NoRequest]
    /\ gen = [r \in Requests |-> NoGen]
    /\ response = [r \in Requests |-> NoResponse]
    /\ metrics = NoMetrics(collector)
    /\ tracing = [span |-> [r \in Requests |-> NoSpan], spans |-> << >>,
                  active_spans |-> << >>]
    /\ execute_tool_calls = {}
    /\ handle_calls = {}
    /\ handler_outcome = [r \in Requests |-> NoOutcome]

\* The tests install the recording collectors.
DispatchInit == DispatchInitWith("TestMetricsCollector")

\* _execute_tool from its entry to the await of handler_instance.handle, for a
\* registered tool: the request is suspended inside the handler.
ExecuteToolEnter(r, tool_name) ==
    /\ tracing' = ExecuteToolEnterTracing(tracing, r, tool_name)
    /\ metrics' = ExecuteToolEnterMetrics(metrics, r, tool_name)
    /\ execute_tool_calls' = execute_tool_calls \cup {r}
    /\ handle_calls' = handle_calls \cup {r}
    /\ pc' = [pc EXCEPT ![r] = "in_handler"]

\* POST /{tool_name}: up to the await of the handler, or to the 404.
execute_tool_simple(r, tool_name) ==
    /\ pc[r] = "idle"
    /\ request' = [request EXCEPT ![r] = [NoRequest EXCEPT !.framing = "simple",
                                                           !.tool_name = tool_name]]
    /\ IF tool_name \in DOMAIN handlers
       THEN /\ ExecuteToolEnter(r, tool_name)
            /\ UNCHANGED response
       ELSE /\ response' = [response EXCEPT ![r] = SimpleResponse(Raised(NotFound(tool_name)))]
            /\ metrics' = SimpleHttpRecord(metrics, tool_name, Raised(NotFound(tool_name)))
            /\ pc' = [pc EXCEPT ![r] = "done"]
            /\ execute_tool_calls' = execute_tool_calls \cup {r}
            /\ UNCHANGED <<tracing, handle_calls>>
    /\ UNCHANGED <<handlers, enable_observability, gen, handler_outcome>>
    /\ UNCHANGED <<widgetVars, rendererVars, libraryVars>>

\* POST /{tool_name}: the handler returns or raises, _execute_tool ends, the
\* endpoint answers and records the request.
execute_tool_simple_resume(r) ==
    /\ pc[r] = "in_handler"
    /\ request[r].framing = "simple"
    /\ \E outcome \in Handle(handlers[request[r].tool_name]) :
         /\ handler_outcome' = [handler_outcome EXCEPT ![r] = outcome]
         /\ tracing' = ExecuteToolExitTracing(tracing, r, outcome)
         /\ metrics' = SimpleHttpRecord(
                           ExecuteToolExitMetrics(metrics, r, request[r].tool_name, outcome),
                           request[r].tool_name, ExecuteToolResult(outcome))
         /\ response' = [response EXCEPT ![r] = SimpleResponse(ExecuteToolResult(outcome))]
    /\ pc' = [pc EXCEPT ![r] = "done"]
    /\ UNCHANGED <<handlers, enable_observability, request, gen, execute_tool_calls,
                   handle_calls>>
    /\ UNCHANGED <<widgetVars, rendererVars, libraryVars>>

\* POST /{tool_name}/jsonrpc: up to the 400, to the error envelope of an
\* unknown tool, or to the await of the handler.
execute_tool_jsonrpc(r, tool_name, method, id) ==
    /\ pc[r] = "idle"
    /\ IF MethodMismatch(method, tool_name)
       THEN /\ request' = [request EXCEPT ![r] = [NoRequest EXCEPT !.framing = "jsonrpc",
                                                                   !.tool_name = tool_name,
                                                                   !.method = method]]
            /\ response' = [response EXCEPT
                               ![r] = HttpError(HTTPException(400, <<"Method name mismatch">>))]
            /\ metrics' = HttpRecord(metrics, Endpoint(tool_name, <<"/jsonrpc">>),
                                     400, "validation_error")
            /\ pc' = [pc EXCEPT ![r] = "done"]
            /\ UNCHANGED <<tracing, execute_tool_calls, handle_calls>>
       ELSE /\ request' = [request EXCEPT ![r] = [framing |-> "jsonrpc",
                                                  tool_name |-> tool_name,
                                                  method |-> method,
                                                  id |-> id]]
            /\ IF tool_name \in DOMAIN handlers
               THEN /\ ExecuteToolEnter(r, tool_name)
                    /\ UNCHANGED response
               ELSE /\ response' = [response EXCEPT
                                       ![r] = JsonRpcResponse(GetId(id),
                                                              Raised(NotFound(tool_name)))]
                    /\ metrics' = JsonRpcHttpRecord(metrics, tool_name,
                                                    Raised(NotFound(tool_name)))
                    /\ pc' = [pc EXCEPT ![r] = "done"]
                    /\ execute_tool_calls' = execute_tool_calls \cup {r}
                    /\ UNCHANGED <<tracing, handle_calls>>
    /\ UNCHANGED <<handlers, enable_observability, gen, handler_outcome>>
    /\ UNCHANGED <<widgetVars, rendererVars, libraryVars>>

execute_tool_jsonrpc_resume(r) ==
    /\ pc[r] = "in_handler"
    /\ request[r].framing = "jsonrpc"
    /\ \E outcome \in Handle(handlers[request[r].tool_name]) :
         /\ handler_outcome' = [handler_outcome EXCEPT ![r] = outcome]
         /\ tracing' = ExecuteToolExitTracing(tracing, r, outcome)
         /\ metrics' = JsonRpcHttpRecord(
                           ExecuteToolExitMetrics(metrics, r, request[r].tool_name, outcome),
                           request[r].tool_name, ExecuteToolResult(outcome))
         /\ response' = [response EXCEPT
                            ![r] = JsonRpcResponse(GetId(request[r].id),
                                                   ExecuteToolResult(outcome))]
    /\ pc' = [pc EXCEPT ![r] = "done"]
    /\ UNCHANGED <<handlers, enable_observability, request, gen, execute_tool_calls,
                   handle_calls>>
    /\ UNCHANGED <<widgetVars, rendererVars, libraryVars>>

\* POST /{tool_name}/sse: the endpoint returns the StreamingResponse and
\* records the request; generate() has not run yet.
execute_tool_sse(r, tool_name) ==
    /\ pc[r] = "idle"
    /\ request' = [request EXCEPT ![r] = [NoRequest EXCEPT !.framing = "sse",
                                                           !.tool_name = tool_name]]
    /\ response' = [response EXCEPT ![r] = [NoResponse EXCEPT !.status_code = 200]]
    /\ metrics' = HttpRecord(metrics, Endpoint(tool_name, <<"/sse">>), 200, None)
    /\ pc' = [pc EXCEPT ![r] = "sse_open"]
    /\ UNCHANGED <<handlers, enable_observability, gen, tracing, execute_tool_calls,
                   handle_calls, handler_outcome>>
    /\ UNCHANGED <<widgetVars, rendererVars, libraryVars>>

\* The client receives one more frame; a terminal frame ends the stream.
Yield(r, frame) ==
    /\ response' = [response EXCEPT ![r].frames = Append(@, frame),
                                    ![r].closed = IsTerminal(frame)]
    /\ pc' = [pc EXCEPT ![r] = IF IsTerminal(frame) THEN "done" ELSE "streaming"]

\* generate() is started: up to the await of the handler, or to the error
\* frame of an unknown tool.
generate_start(r) ==
    /\ pc[r] = "sse_open"
    /\ IF request[r].tool_name \in DOMAIN handlers
       THEN /\ ExecuteToolEnter(r, request[r].tool_name)
            /\ UNCHANGED response
       ELSE /\ Yield(r, ErrorFrame(Str(NotFound(request[r].tool_name))))
            /\ execute_tool_calls' = execute_tool_calls \cup {r}
            /\ UNCHANGED <<tracing, metrics, handle_calls>>
    /\ UNCHANGED <<handlers, enable_observability, request, gen, handler_outcome>>
    /\ UNCHANGED <<widgetVars, rendererVars, libraryVars>>

\* generate(): the handler returns or raises, _execute_tool ends, and the
\* first frame is yielded.
generate_resume(r) ==
    /\ pc[r] = "in_handler"
    /\ request[r].framing = "sse"
    /\ \E outcome \in Handle(handlers[request[r].tool_name]) :
         LET d == ExecuteToolResult(outcome) IN
         /\ handler_outcome' = [handler_outcome EXCEPT ![r] = outcome]
         /\ tracing' = ExecuteToolExitTracing(tracing, r, outcome)
         /\ metrics' = ExecuteToolExitMetrics(metrics, r, request[r].tool_name, outcome)
         /\ IF d.ok
            THEN /\ gen' = [gen EXCEPT ![r] = [results |-> d.results, i |-> 1]]
                 /\ Yield(r, NextFrame(d.results, 0))
            ELSE /\ gen' = gen
                 /\ Yield(r, ErrorFrame(Str(d.exc)))
    /\ UNCHANGED <<handlers, enable_observability, request, execute_tool_calls,
                   handle_calls>>
    /\ UNCHANGED <<widgetVars, rendererVars, libraryVars>>

\* generate(): the client asks for the next frame.
generate_next(r) ==
    /\ pc[r] = "streaming"
    /\ Yield(r, NextFrame(gen[r].results, gen[r].i))
    /\ gen' = [gen EXCEPT ![r].i = @ + 1]
    /\ UNCHANGED <<handlers, enable_observability, request, metrics, tracing,
                   execute_tool_calls, handle_calls, handler_outcome>>
    /\ UNCHANGED <<widgetVars, rendererVars, libraryVars>>

Methods(tool_name) == {NoField, tool_name, "other"}

DispatchNext ==
    \E r \in Requests :
        \/ \E tool_name \in ToolNames : execute_tool_simple(r, tool_name)
        \/ execute_tool_simple_resume(r)
        \/ \E tool_name \in ToolNames : execute_tool_sse(r, tool_name)
        \/ generate_start(r)
        \/ generate_resume(r)
        \/ generate_next(r)
        \/ \E tool_name \in ToolNames : \E method \in Methods(tool_name) :
             \E id \in RequestIds \cup {NoField} :
               execute_tool_jsonrpc(r, tool_name, method, id)
        \/ execute_tool_jsonrpc_resume(r)

----------------------------------------------------------------------------
(* The widget server: the activity timeline *)

\* Number of POST /create requests of one behaviour of SpecWidgets.
MaxCreates == 3
\* Timestamps are 1..MaxTime.
MaxTime == 3
\* GET /timeline is asked for limit in 0..MaxLimit.
MaxLimit == 3
\* Number of POST /create requests of one behaviour of SpecLog.
MaxAppends == 1002

\* deque(maxlen=1000)
maxlen == 1000

Times == 1..MaxTime
WidgetIds == {"w1", "w2"}

\* A dict as a function from its keys; d.get(key, default).
EmptyDict == [key \in {} |-> ""]
Get(d, key, default) == IF key \in DOMAIN d THEN d[key] ELSE default

\* The dataclass WidgetAction.
WidgetAction(label, method, url, payload, confirm, confirm_message) ==
    [label |-> label, method |-> method, url |-> url, payload |-> payload,
     confirm |-> confirm, confirm_message |-> confirm_message]

\* The dataclass WidgetCard, with the defaults of its fields.
NewWidgetCard(id, title, timestamp) ==
    [id |-> id, title |-> title, content |-> "", timestamp |-> timestamp,
     service_name |-> "", tool_name |-> "", actions |-> << >>, metadata |-> EmptyDict,
     card_type |-> "default", icon |-> ""]

WidgetCard(id, timestamp, service_name) ==
    [NewWidgetCard(id, "", timestamp) EXCEPT !.service_name = service_name]

\* datetime.isoformat and datetime.fromisoformat: the string of a datetime,
\* and the datetime of a string that is one.
isoformat(timestamp) == [valid |-> TRUE, t |-> timestamp]
fromisoformat(date_string) == date_string.t

\* A value of a JSON body that is a dict, and one that is not.
Dict(d) == [py |-> "dict", d |-> d]
NotADict == [py |-> "str", d |-> EmptyDict]

\* WidgetCard.to_dict, lines 73-83: the dict of one action.
ActionToDict(action) ==
    Dict([label |-> action.label, method |-> action.method, url |-> action.url,
          payload |-> action.payload, confirm |-> action.confirm,
          confirm_message |-> action.confirm_message])

\* ToDict with the fault of leaving out the confirm fields of the actions.
ToDictNoConfirm(widget) ==
    [id |-> widget.id, title |-> widget.title, content |-> widget.content,
     timestamp |-> isoformat(widget.timestamp), service_name |-> widget.service_name,
     tool_name |-> widget.tool_name,
     actions |-> [i \in 1..Len(widget.actions) |->
                     Dict([label |-> widget.actions[i].label,
                           method |-> widget.actions[i].method,
                           url |-> widget.actions[i].url,
                           payload |-> widget.actions[i].payload])],
     metadata |-> widget.metadata, card_type |-> widget.card_type, icon |-> widget.icon]

\* WidgetCard.to_dict
to_dict(widget) ==
    [id |-> widget.id, title |-> widget.title, content |-> widget.content,
     timestamp |-> isoformat(widget.timestamp), service_name |-> widget.service_name,
     tool_name |-> widget.tool_name,
     actions |-> [i \in 1..Len(widget.actions) |-> ActionToDict(widget.actions[i])],
     metadata |-> widget.metadata, card_type |-> widget.card_type, icon |-> widget.icon]

\* create_widget, lines 379-388: the WidgetAction of one action dict.
ParseAction(action_dict) ==
    WidgetAction(Get(action_dict, "label", ""), Get(action_dict, "method", "POST"),
                 Get(action_dict, "url", ""), Get(action_dict, "payload", EmptyDict),
                 Get(action_dict, "confirm", FALSE),
                 Get(action_dict, "confirm_message", "Are you sure?"))

\* create_widget, lines 376-388: the entries that are dicts, in order.
RECURSIVE ParseActions(_)
ParseActions(action_dicts) ==
    IF action_dicts = << >> THEN << >>
    ELSE (IF Head(action_dicts).py = "dict"
          THEN <<ParseAction(Head(action_dicts).d)>> ELSE << >>)
             \o ParseActions(Tail(action_dicts))

\* create_widget, lines 391-404, for a widget dict that has a timestamp.
ParseWidget(widget_dict) ==
    [id |-> Get(widget_dict, "id", ""),
     title |-> Get(widget_dict, "title", ""),
     content |-> Get(widget_dict, "content", ""),
     timestamp |-> fromisoformat(widget_dict.timestamp),
     service_name |-> Get(widget_dict, "service_name", ""),
     tool_name |-> Get(widget_dict, "tool_name", ""),
     actions |-> ParseActions(Get(widget_dict, "actions", << >>)),
     metadata |-> Get(widget_dict, "metadata", EmptyDict),
     card_type |-> Get(widget_dict, "card_type", "default"),
     icon |-> Get(widget_dict, "icon", "")]

\* DequeAppend with the fault of refusing the new record when the deque is full.
DequeAppendDropsNewest(d, x) ==
    IF Len(d) >= maxlen THEN d ELSE Append(d, x)

\* deque.append on a deque with maxlen: a full deque drops its oldest record.
DequeAppend(d, x) ==
    IF Len(d) >= maxlen THEN Append(Tail(d), x) ELSE Append(d, x)

\* sorted(ws, key=lambda w: w.timestamp, reverse=True): stable, so records of
\* equal timestamp keep their order.
InsertDesc(sorted, w) ==
    LET n == Cardinality({i \in 1..Len(sorted) : sorted[i].timestamp >= w.timestamp})
    IN SubSeq(sorted, 1, n) \o <<w>> \o SubSeq(sorted, n + 1, Len(sorted))

RECURSIVE SortedDesc(_)
SortedDesc(ws) ==
    IF ws = << >> THEN << >>
    ELSE InsertDesc(SortedDesc(SubSeq(ws, 1, Len(ws) - 1)), ws[Len(ws)])

Filter(ws, since) ==
    LET keep == {i \in 1..Len(ws) : ws[i].timestamp > since}
        RECURSIVE F(_)
        F(i) == IF i > Len(ws) THEN << >>
                ELSE (IF i \in keep THEN <<ws[i]>> ELSE << >>) \o F(i + 1)
    IN F(1)

\* ws[:limit] for limit >= 0
Take(ws, limit) == SubSeq(ws, 1, IF limit < Len(ws) THEN limit ELSE Len(ws))

\* The widgets each provider class holds: two providers that overlap by id.
ProviderWidgets(provider_class) ==
    IF provider_class = "TestWidgetProvider"
    THEN <<WidgetCard("w1", 1, "test_service"), WidgetCard("w3", 2, "test_service")>>
    ELSE <<WidgetCard("w1", 3, "other_service")>>

NoSince == 0

\* TestWidgetProvider.get_widgets
get_widgets(provider_class, limit, since) ==
    Take(SortedDesc(IF since # NoSince
                    THEN Filter(ProviderWidgets(provider_class), since)
                    ELSE ProviderWidgets(provider_class)),
         limit)

\* The order in which self._providers.items() yields the providers.
ProviderOrder == <<"test_service", "other_service">>

\* get_timeline, lines 325-341: the widgets of every provider, then the
\* records of the activity timeline.
AllWidgets(limit, since) ==
    get_widgets(providers[ProviderOrder[1]], limit, since)
        \o get_widgets(providers[ProviderOrder[2]], limit, since)
        \o activity_timeline

\* UniqueWidgets without the test of seen_ids.
RECURSIVE UniqueWidgetsNoSeenIds(_, _, _, _)
UniqueWidgetsNoSeenIds(ws, seen_ids, unique_widgets, limit) ==
    IF ws = << >> THEN unique_widgets
    ELSE IF Len(unique_widgets) + 1 >= limit
    THEN Append(unique_widgets, Head(ws))
    ELSE UniqueWidgetsNoSeenIds(Tail(ws), seen_ids, Append(unique_widgets, Head(ws)), limit)

\* get_timeline, lines 344-351: the first record of each id, until limit
\* records are kept.
RECURSIVE UniqueWidgets(_, _, _, _)
UniqueWidgets(ws, seen_ids, unique_widgets, limit) ==
    IF ws = << >> THEN unique_widgets
    ELSE IF Head(ws).id \notin seen_ids
    THEN IF Len(unique_widgets) + 1 >= limit
         THEN Append(unique_widgets, Head(ws))
         ELSE UniqueWidgets(Tail(ws), seen_ids \cup {Head(ws).id},
                            Append(unique_widgets, Head(ws)), limit)
    ELSE UniqueWidgets(Tail(ws), seen_ids, unique_widgets, limit)

\* Timeline with the fault of deduplicating before sorting.
TimelineDedupFirst(limit, since) ==
    Take(SortedDesc(UniqueWidgets(AllWidgets(limit, since), {}, << >>,
                                  Len(AllWidgets(limit, since)) + 1)),
         limit)

Timeline(limit, since) ==
    UniqueWidgets(SortedDesc(AllWidgets(limit, since)), {}, << >>, limit)

NoAction == [method |-> "", url |-> "", payload |-> EmptyDict]

NoWidgetResponse ==
    [endpoint |-> "", status_code |-> 0, limit |-> 0, since |-> NoSince, widgets |-> << >>,
     widget_dict |-> EmptyDict, widget_id |-> "", action_index |-> 0, action |-> NoAction,
     html |-> << >>]

WidgetInit ==
    /\ providers = ("test_service" :> "TestWidgetProvider")
                       @@ ("other_service" :> "OtherWidgetProvider")
    /\ activity_timeline = << >>
    /\ widget_response = NoWidgetResponse
    /\ appended = << >>

\* GET /timeline?limit=..&since=..
get_timeline(limit, since) ==
    /\ widget_response' = [NoWidgetResponse EXCEPT !.endpoint = "/timeline",
                                                   !.status_code = 200,
                                                   !.limit = limit, !.since = since,
                                                   !.widgets = Timeline(limit, since)]
    /\ UNCHANGED <<providers, activity_timeline, appended>>
    /\ UNCHANGED <<dispatchVars, rendererVars, libraryVars>>

\* An ISO timestamp of a request body: a string datetime.fromisoformat
\* accepts, or one it rejects with ValueError.
IsoStrings == [valid : {TRUE}, t : Times] \cup {[valid |-> FALSE, t |-> 0]}

\* create_widget with the fault of appending before the timestamp is parsed.
create_widget_append_first(widget_dict) ==
    /\ UNCHANGED <<dispatchVars, rendererVars, libraryVars>>
    /\ activity_timeline' = DequeAppend(activity_timeline, ParseWidget(widget_dict))
    /\ appended' = Append(appended, ParseWidget(widget_dict))
    /\ widget_response' = [NoWidgetResponse EXCEPT
                               !.endpoint = "/create",
                               !.status_code = IF widget_dict.timestamp.valid THEN 200
                                               ELSE 500,
                               !.widget_dict = widget_dict]
    /\ UNCHANGED providers

\* POST /create with body {"widget": widget_dict}
create_widget(widget_dict) ==
    /\ UNCHANGED <<dispatchVars, rendererVars, libraryVars>>
    /\ IF widget_dict.timestamp.valid
       THEN LET widget == ParseWidget(widget_dict)
            IN /\ activity_timeline' = DequeAppend(activity_timeline, widget)
               /\ appended' = Append(appended, widget)
               /\ widget_response' = [NoWidgetResponse EXCEPT !.endpoint = "/create",
                                                              !.status_code = 200,
                                                              !.widget_dict = widget_dict,
                                                              !.widgets = <<widget>>]
               /\ UNCHANGED providers
       ELSE /\ widget_response' = [NoWidgetResponse EXCEPT !.endpoint = "/create",
                                                           !.widget_dict = widget_dict,
                                                           !.status_code = 500]
            /\ UNCHANGED <<providers, activity_timeline, appended>>

WidgetDicts == [id : WidgetIds, timestamp : IsoStrings, service_name : {"svc"}]

WidgetNext ==
    \/ \E limit \in 0..MaxLimit : \E since \in {NoSince} \cup Times :
         get_timeline(limit, since)
    \/ /\ Len(appended) < MaxCreates
       /\ \E widget_dict \in WidgetDicts : create_widget(widget_dict)

\* execute_action, lines 430-435: the first record of the timeline with the id.
FindWidget(widget_id) ==
    LET found == {i \in 1..Len(activity_timeline) : activity_timeline[i].id = widget_id}
    IN IF found = {} THEN 0 ELSE CHOOSE i \in found : \A j \in found : i <= j

\* execute_action, lines 442-456: the answer for a widget that was found.
\* widget.actions[action_index] counts a negative index from the end of the
\* list, and raises IndexError for an index before its start.
ActionAt(actions, action_index) ==
    LET n == Len(actions)
        k == IF action_index >= 0 THEN action_index + 1 ELSE n + action_index + 1
    IN IF action_index >= n
       THEN [status_code |-> 400, action |-> NoAction]
       ELSE IF k < 1
       THEN [status_code |-> 500, action |-> NoAction]
       ELSE [status_code |-> 200, action |-> [method |-> actions[k].method,
                                              url |-> actions[k].url,
                                              payload |-> actions[k].payload]]

\* POST /action/{widget_id} with body {"action_index": action_index}
execute_action(widget_id, action_index) ==
    /\ LET i == FindWidget(widget_id)
           answer == IF i = 0 THEN [status_code |-> 404, action |-> NoAction]
                     ELSE ActionAt(activity_timeline[i].actions, action_index)
       IN widget_response' = [NoWidgetResponse EXCEPT !.endpoint = "/action",
                                                      !.status_code = answer.status_code,
                                                      !.widget_id = widget_id,
                                                      !.action_index = action_index,
                                                      !.action = answer.action]
    /\ UNCHANGED <<providers, activity_timeline, appended>>
    /\ UNCHANGED <<dispatchVars, rendererVars, libraryVars>>

\* Number of POST /create requests of one behaviour of SpecActions.
MaxActionCreates == 2
\* POST /action is asked for action_index in -MaxIndex..MaxIndex.
MaxIndex == 3

Actions1 == WidgetAction("Open", "GET", "/api/open", EmptyDict, FALSE, "Are you sure?")
Actions2 == WidgetAction("Delete", "DELETE", "/api/item", [key |-> "value"], TRUE, "Really?")

\* Widget records a client may hold.
Cards ==
    [id : WidgetIds, title : {"T"}, content : {"<b>c</b>"}, timestamp : {2},
     service_name : {"svc"}, tool_name : {"echo"},
     actions : {<< >>, <<Actions1>>, <<Actions2, Actions1>>},
     metadata : {EmptyDict, [k |-> "v"]}, card_type : {"info"}, icon : {"star"}]

\* Bodies of POST /create: the dicts of those records, and dicts with keys
\* missing and with an entry of actions that is not a dict.
ActionWidgetDicts ==
    {to_dict(w) : w \in Cards}
        \cup {[id |-> "w2", timestamp |-> isoformat(1)],
              [id |-> "w1", timestamp |-> isoformat(2),
               actions |-> <<NotADict, Dict([url |-> "/api/u"])>>]}

ActionNext ==
    \/ /\ Len(appended) < MaxActionCreates
       /\ \E widget_dict \in ActionWidgetDicts : create_widget(widget_dict)
    \/ \E widget_id \in WidgetIds \cup {"non-existent"} :
           \E action_index \in (0 - MaxIndex)..MaxIndex :
               execute_action(widget_id, action_index)

\* The k-th request of a long run of POST /create: ids repeat, timestamps cycle.
StreamWidget(k) ==
    [id |-> IF k % 3 = 0 THEN "w1" ELSE "w2",
     timestamp |-> [valid |-> TRUE, t |-> (k % MaxTime) + 1],
     service_name |-> "svc"]

LogNext ==
    /\ Len(appended) < MaxAppends
    /\ create_widget(StreamWidget(Len(appended) + 1))

----------------------------------------------------------------------------
(* user_agent.py: device detection *)

\* Longest user agent string, in tokens.
MaxUaLen == 2

\* A user agent string is a sequence of tokens, each a word in some
\* capitalisation; an absent header is None.
Words == {"iphone", "mobile", "windows nt", "chrome"}
Tokens == [w : Words, upper : BOOLEAN]
UserAgentStrings == UNION {[1..n -> Tokens] : n \in 0..MaxUaLen}
NoUserAgent == [present |-> FALSE, s |-> << >>]
UserAgent(s) == [present |-> TRUE, s |-> s]
UserAgents == {NoUserAgent} \cup {UserAgent(s) : s \in UserAgentStrings}

\* str.lower()
Lower(s) == [i \in 1..Len(s) |-> [s[i] EXCEPT !.upper = FALSE]]

\* MOBILE_PATTERNS and DESKTOP_PATTERNS; a pattern a.*b is the sequence of
\* its two parts.
MOBILE_PATTERNS ==
    {<<"iphone">>, <<"ipod">>, <<"ipad">>, <<"ios">>, <<"android">>, <<"mobile", "android">>,
     <<"windows phone">>, <<"windows mobile">>, <<"blackberry">>, <<"bb10">>,
     <<"mobile safari">>, <<"opera mini">>, <<"opera mobi">>, <<"mobile", "firefox">>,
     <<"mobile", "chrome">>, <<"tablet">>, <<"kindle">>, <<"silk">>, <<"mobile">>,
     <<"webos">>, <<"palm">>, <<"fennec">>, <<"maemo">>, <<"symbian">>, <<"j2me">>,
     <<"midp">>, <<"cldc">>, <<"ucweb">>, <<"ucbrowser">>, <<"micromessenger">>,
     <<"qqbrowser", "mobile">>, <<"baiduspider", "mobile">>, <<"wv">>, <<"mobile", "wv">>}
DESKTOP_PATTERNS ==
    {<<"windows nt">>, <<"macintosh">>, <<"linux", "x86_64">>, <<"x11", "linux">>,
     <<"win64">>, <<"wow64">>}

\* re.search of one pattern, compiled with re.IGNORECASE.
PatternSearch(pattern, s) ==
    IF Len(pattern) = 1
    THEN \E i \in 1..Len(s) : s[i].w = pattern[1]
    ELSE \E i, j \in 1..Len(s) : i < j /\ s[i].w = pattern[1] /\ s[j].w = pattern[2]

\* _MOBILE_REGEX.search and _DESKTOP_REGEX.search: the alternation of the patterns.
Search(patterns, s) == \E pattern \in patterns : PatternSearch(pattern, s)

\* "mobile" in user_agent_lower
InMobile(s) == \E i \in 1..Len(s) : s[i] = [w |-> "mobile", upper |-> FALSE]

\* is_mobile_device with the fault of letting a desktop pattern win.
is_mobile_device_desktop_first(user_agent) ==
    IF ~user_agent.present \/ user_agent.s = << >> THEN FALSE
    ELSE LET user_agent_lower == Lower(user_agent.s) IN
         /\ ~Search(DESKTOP_PATTERNS, user_agent_lower)
         /\ Search(MOBILE_PATTERNS, user_agent_lower)

is_mobile_device(user_agent) ==
    IF ~user_agent.present \/ user_agent.s = << >> THEN FALSE
    ELSE LET user_agent_lower == Lower(user_agent.s) IN
         IF Search(MOBILE_PATTERNS, user_agent_lower) THEN TRUE
         ELSE IF InMobile(user_agent_lower)
         THEN ~Search(DESKTOP_PATTERNS, user_agent_lower)
         ELSE FALSE

detect_device_type(user_agent) ==
    IF is_mobile_device(user_agent) THEN "mobile" ELSE "desktop"

----------------------------------------------------------------------------
(* widget_renderer.py and widget_views.py *)

\* The values of the enum ViewContext.
ViewContexts ==
    {"list", "detail", "mobile", "desktop", "default",
     "list_mobile", "list_desktop", "detail_mobile", "detail_desktop"}

\* resolve_context with the fault of resolving only when a user agent is given.
resolve_context_needs_user_agent(context, user_agent) ==
    IF context \in {"list_mobile", "list_desktop", "detail_mobile", "detail_desktop"}
    THEN context
    ELSE IF ~user_agent.present THEN context
    ELSE IF context = "list"
    THEN (IF detect_device_type(user_agent) = "mobile" THEN "list_mobile" ELSE "list_desktop")
    ELSE IF context = "detail"
    THEN (IF detect_device_type(user_agent) = "mobile" THEN "detail_mobile"
          ELSE "detail_desktop")
    ELSE context

\* WidgetRenderer.resolve_context
resolve_context(context, user_agent) ==
    IF context \in {"list_mobile", "list_desktop", "detail_mobile", "detail_desktop"}
    THEN context
    ELSE LET device_type == detect_device_type(user_agent) IN
         IF context = "list"
         THEN (IF device_type = "mobile" THEN "list_mobile" ELSE "list_desktop")
         ELSE IF context = "detail"
         THEN (IF device_type = "mobile" THEN "detail_mobile" ELSE "detail_desktop")
         ELSE context

\* A view instance: its class, what its view_context returns, and its identity.
NoView == [class |-> "", view_context |-> "", oid |-> 0]
View(class, view_context, oid) == [class |-> class, view_context |-> view_context, oid |-> oid]

\* What view_context returns for an instance of each class built without arguments.
ViewContextOf(class) ==
    CASE class = "ListWidgetView" -> "list"
      [] class = "DetailWidgetView" -> "detail"
      [] class = "MobileWidgetView" -> "mobile"
      [] class = "DesktopWidgetView" -> "desktop"
      [] class = "ListMobileView" -> "list_mobile"
      [] class = "ListDesktopView" -> "list_desktop"
      [] class = "DetailMobileView" -> "detail_mobile"
      [] class = "DetailDesktopView" -> "detail_desktop"
      [] OTHER -> "default"

\* One entry of config._registrations: the key, the class registered for it,
\* and whether the injector keeps one instance of it.
Registration(abstract, concrete, singleton) ==
    [abstract |-> abstract, concrete |-> concrete, singleton |-> singleton]

\* The injector configurations: nothing registered; the list view or the
\* detail view registered for WidgetView; a composite view registered
\* directly, before the list view; implementations found by reflection.
Configs ==
    {[registrations |-> << >>, implementations |-> << >>],
     [registrations |-> <<Registration("WidgetView", "ListWidgetView", TRUE)>>,
      implementations |-> << >>],
     [registrations |-> <<Registration("WidgetView", "DetailWidgetView", TRUE)>>,
      implementations |-> << >>],
     [registrations |-> <<Registration("ListDesktopView", "ListDesktopView", FALSE),
                          Registration("WidgetView", "ListWidgetView", TRUE)>>,
      implementations |-> <<"DetailMobileView">>]}

\* get_view, lines 118-167: the classes get_view injects, in the order in
\* which it tries them: the registrations, then the discovered classes.
Candidates(config) ==
    [i \in 1..Len(config.registrations) |->
         [class |-> IF config.registrations[i].abstract = "WidgetView"
                    THEN config.registrations[i].concrete
                    ELSE config.registrations[i].abstract,
          singleton |-> config.registrations[i].singleton]]
        \o [i \in 1..Len(config.implementations) |->
                [class |-> config.implementations[i], singleton |-> FALSE]]

\* The first candidate whose view_context is the resolved context, or 0.
FindView(candidates, resolved_context) ==
    LET matching == {i \in 1..Len(candidates) :
                         ViewContextOf(candidates[i].class) = resolved_context}
    IN IF matching = {} THEN 0 ELSE CHOOSE i \in matching : \A j \in matching : i <= j

\* GetView with the fault of not reading the cache.
GetViewNoCache(config, cache, oid, context, user_agent) ==
    LET resolved_context == resolve_context(context, user_agent)
        candidates == Candidates(config)
        i == FindView(candidates, resolved_context)
        view == IF i = 0 THEN View("DefaultWidgetView", resolved_context, oid + 1)
                ELSE View(candidates[i].class, resolved_context, oid + 1)
    IN [view |-> view, cache |-> [cache EXCEPT ![resolved_context] = view], oid |-> oid + 1]

\* WidgetRenderer.get_view: the cached view of the resolved context, or the
\* first registered or discovered view that reports that context, or a new
\* DefaultWidgetView; the view found is written to the cache.  oid is the
\* number of instances made so far; the instance of a singleton has oid 0.
GetView(config, cache, oid, context, user_agent) ==
    LET resolved_context == resolve_context(context, user_agent)
        candidates == Candidates(config)
        i == FindView(candidates, resolved_context)
    IN IF cache[resolved_context] # NoView
       THEN [view |-> cache[resolved_context], cache |-> cache, oid |-> oid]
       ELSE LET view ==
                    IF i = 0 THEN View("DefaultWidgetView", resolved_context, oid + 1)
                    ELSE IF candidates[i].singleton
                    THEN View(candidates[i].class, resolved_context, 0)
                    ELSE View(candidates[i].class, resolved_context, oid + 1)
            IN [view |-> view, cache |-> [cache EXCEPT ![resolved_context] = view],
                oid |-> IF view.oid = 0 THEN oid ELSE oid + 1]

\* Text is a sequence of characters; an entity is one character of the output.
EscapeChar(c) ==
    CASE c = "&" -> "&amp;"
      [] c = "<" -> "&lt;"
      [] c = ">" -> "&gt;"
      [] c = "\"" -> "&quot;"
      [] c = "'" -> "&#x27;"
      [] OTHER -> c

\* DefaultWidgetView._escape_html
EscapeHtml(text) == [i \in 1..Len(text) |-> EscapeChar(text[i])]

\* DefaultWidgetView.render, lines 134-144: one button per action, its label escaped.
RECURSIVE ActionsHtml(_, _)
ActionsHtml(widget, idx) ==
    IF idx > Len(widget.actions) THEN << >>
    ELSE <<"<button onclick=handleWidgetAction(">> \o widget.id \o <<")>">>
             \o EscapeHtml(widget.actions[idx].label) \o <<"</button>">>
             \o ActionsHtml(widget, idx + 1)

\* DefaultWidgetView.render: the pieces of the card, in order.  The title,
\* the service name, the tool name and the action labels are escaped; the
\* id, the card type and the content are inserted as they are.
DefaultRender(widget) ==
    <<"<div class=widget-card ">> \o widget.card_type \o <<" data-widget-id=">> \o widget.id
        \o <<"><div class=widget-title>">> \o EscapeHtml(widget.title)
        \o <<"</div><div class=widget-meta>">>
        \o EscapeHtml(widget.service_name) \o EscapeHtml(widget.tool_name)
        \o <<"timestamp", "</div><div class=widget-content>">> \o widget.content
        \o <<"</div>">>
        \o (IF widget.actions # << >>
            THEN <<"<div class=widget-actions>">> \o ActionsHtml(widget, 1) \o <<"</div>">>
            ELSE << >>)
        \o <<"</div>">>

\* DetailMobileView.render for a widget without metadata: its own card, with
\* the title, the service name, the tool name and the labels escaped and the
\* content as it is.
DetailMobileRender(widget) ==
    <<"<div class=widget-detail mobile>", "<div class=widget-card mobile detail ">>
        \o widget.card_type \o <<" data-widget-id=">> \o widget.id
        \o <<"><div class=widget-title>">> \o EscapeHtml(widget.title)
        \o <<"</div><div class=widget-meta>">>
        \o EscapeHtml(widget.service_name) \o EscapeHtml(widget.tool_name)
        \o <<"timestamp", "</div><div class=widget-content mobile>">> \o widget.content
        \o <<"</div>">>
        \o (IF widget.actions # << >>
            THEN <<"<div class=widget-actions mobile>">> \o ActionsHtml(widget, 1)
                     \o <<"</div>">>
            ELSE << >>)
        \o <<"</div>", "</div>">>

\* render of the view classes of Configs, for a widget without metadata:
\* DetailWidgetView and DetailDesktopView wrap the card of DefaultWidgetView,
\* DetailMobileView renders its own, and DefaultWidgetView, ListWidgetView,
\* ListDesktopView and DesktopWidgetView render the card of DefaultWidgetView.
ViewRender(class, widget) ==
    IF class \in {"DetailWidgetView", "DetailDesktopView"}
    THEN <<"<div class=widget-detail>">> \o DefaultRender(widget) \o <<"</div>">>
    ELSE IF class = "DetailMobileView" THEN DetailMobileRender(widget)
    ELSE DefaultRender(widget)

\* Widgets handed to a view: text fields are sequences of characters.
RenderWidget(title, content, actions) ==
    [id |-> <<"w">>, title |-> title, content |-> content, service_name |-> <<"s", "&">>,
     tool_name |-> << >>, actions |-> actions, card_type |-> <<"default">>]
RenderWidgets ==
    {RenderWidget(<<"T">>, <<"c">>, << >>),
     RenderWidget(<<"a", "&", "\"", "S", "\"", "<", "C", ">", "'">>,
                  <<"<", "script", ">", "x", "<", "/", "script", ">">>,
                  <<[label |-> <<"<", "b", ">">>]>>)}

\* ViewRequest(context=context, widget=widget)
ViewRequest(context, widget) == [context |-> context, widget |-> widget]

\* "\n".join(parts)
RECURSIVE Join(_)
Join(parts) ==
    IF parts = << >> THEN << >>
    ELSE IF Len(parts) = 1 THEN parts[1]
    ELSE parts[1] \o <<"\n">> \o Join(Tail(parts))

\* render_multiple of the view classes of Configs: the renderings of the
\* requests joined by newlines, which ListWidgetView and its subclass
\* ListDesktopView wrap in a list.
ViewRenderMultiple(class, requests) ==
    LET widgets_html == Join([i \in 1..Len(requests) |->
                                  ViewRender(class, requests[i].widget)])
    IN IF class \in {"ListWidgetView", "ListDesktopView"}
       THEN <<"<div class=widget-list>">> \o widgets_html \o <<"</div>">>
       ELSE widgets_html

\* ByContextKeys with the fault of ordering the groups by the last
\* occurrence of their context.
RECURSIVE ByContextKeysLastOccurrence(_)
ByContextKeysLastOccurrence(requests) ==
    IF requests = << >> THEN << >>
    ELSE LET rest == ByContextKeysLastOccurrence(Tail(requests))
         IN IF \E i \in 1..Len(rest) : rest[i] = Head(requests).context
            THEN rest
            ELSE <<Head(requests).context>> \o rest

\* render_multiple, lines 232-236: the keys of by_context, in the order in
\* which the dict received them.
RECURSIVE ByContextKeys(_)
ByContextKeys(requests) ==
    IF requests = << >> THEN << >>
    ELSE LET front == ByContextKeys(SubSeq(requests, 1, Len(requests) - 1))
             ctx == requests[Len(requests)].context
         IN IF \E i \in 1..Len(front) : front[i] = ctx THEN front ELSE Append(front, ctx)

\* by_context[ctx]: the requests of the context, in the order of the input.
ByContext(requests, ctx) ==
    LET RECURSIVE G(_)
        G(i) == IF i > Len(requests) THEN << >>
                ELSE (IF requests[i].context = ctx THEN <<requests[i]>> ELSE << >>)
                         \o G(i + 1)
    IN G(1)

\* render_multiple, lines 239-242: one get_view and one view.render_multiple
\* per group; acc carries the results, the cache, the instance count and the
\* get_view calls made so far.
RECURSIVE RenderGroups(_, _, _, _, _)
RenderGroups(config, keys, requests, user_agent, acc) ==
    IF keys = << >> THEN acc
    ELSE LET got == GetView(config, acc.cache, acc.oid, Head(keys), user_agent)
         IN RenderGroups(config, Tail(keys), requests, user_agent,
                         [results |-> Append(acc.results,
                                             ViewRenderMultiple(
                                                 got.view.class,
                                                 ByContext(requests, Head(keys)))),
                          cache |-> got.cache,
                          oid |-> got.oid,
                          log |-> Append(acc.log,
                                         [resolved_context |->
                                              resolve_context(Head(keys), user_agent),
                                          view |-> got.view])])

\* WidgetRenderer.render_multiple(requests, context, user_agent); context is
\* None when the caller gives no shared context.
RenderMultiple(config, cache, oid, requests, context, user_agent) ==
    IF requests = << >>
    THEN [html |-> << >>, cache |-> cache, oid |-> oid, log |-> << >>]
    ELSE IF context # None
    THEN LET got == GetView(config, cache, oid, context, user_agent)
         IN [html |-> ViewRenderMultiple(got.view.class, requests),
             cache |-> got.cache, oid |-> got.oid,
             log |-> <<[resolved_context |-> resolve_context(context, user_agent),
                        view |-> got.view]>>]
    ELSE LET done == RenderGroups(config, ByContextKeys(requests), requests, user_agent,
                                  [results |-> << >>, cache |-> cache, oid |-> oid,
                                   log |-> << >>])
         IN [html |-> Join(done.results), cache |-> done.cache, oid |-> done.oid,
             log |-> done.log]

----------------------------------------------------------------------------
(* The renderer: state and actions *)

\* Number of WidgetRenderer.render calls of one behaviour.
MaxRenders == 3

NoRenderResult ==
    [op |-> "", context |-> "", user_agent |-> NoUserAgent, device_type |-> "",
     resolved_context |-> "", view |-> NoView, widget |-> RenderWidget(<< >>, << >>, << >>),
     requests |-> << >>, html |-> << >>]

RendererInitWith(c) ==
    /\ injector_config = c
    /\ view_cache = [context \in ViewContexts |-> NoView]
    /\ instances = 0
    /\ get_view_log = << >>
    /\ render_result = NoRenderResult

\* detect_device_type(user_agent)
detect(user_agent) ==
    /\ render_result' = [NoRenderResult EXCEPT !.op = "detect_device_type",
                                               !.user_agent = user_agent,
                                               !.device_type = detect_device_type(user_agent)]
    /\ UNCHANGED <<injector_config, view_cache, instances, get_view_log>>
    /\ UNCHANGED <<dispatchVars, widgetVars, libraryVars>>

\* WidgetRenderer.resolve_context(context, user_agent)
resolve(context, user_agent) ==
    /\ render_result' = [NoRenderResult EXCEPT
                             !.op = "resolve_context",
                             !.context = context,
                             !.user_agent = user_agent,
                             !.resolved_context = resolve_context(context, user_agent)]
    /\ UNCHANGED <<injector_config, view_cache, instances, get_view_log>>
    /\ UNCHANGED <<dispatchVars, widgetVars, libraryVars>>

\* DefaultWidgetView().render(ViewRequest(context=ViewContext.DEFAULT, widget=widget)),
\* on a view the caller constructed: no renderer and no injector takes part.
default_view_render(widget) ==
    /\ render_result' = [NoRenderResult EXCEPT
                             !.op = "DefaultWidgetView.render",
                             !.context = "default",
                             !.view = View("DefaultWidgetView", "default", 0),
                             !.widget = widget,
                             !.html = DefaultRender(widget)]
    /\ UNCHANGED <<injector_config, view_cache, instances, get_view_log>>
    /\ UNCHANGED <<dispatchVars, widgetVars, libraryVars>>

\* WidgetRenderer.render(ViewRequest(context, widget), user_agent)
render(context, widget, user_agent) ==
    /\ Len(get_view_log) < MaxRenders
    /\ LET got == GetView(injector_config, view_cache, instances, context, user_agent) IN
         /\ view_cache' = got.cache
         /\ instances' = got.oid
         /\ get_view_log' = Append(get_view_log,
                                   [resolved_context |-> resolve_context(context, user_agent),
                                    view |-> got.view])
         /\ render_result' = [NoRenderResult EXCEPT
                                  !.op = "render",
                                  !.context = context,
                                  !.user_agent = user_agent,
                                  !.resolved_context = resolve_context(context, user_agent),
                                  !.view = got.view,
                                  !.widget = widget,
                                  !.html = ViewRender(got.view.class, widget)]
    /\ UNCHANGED injector_config
    /\ UNCHANGED <<dispatchVars, widgetVars, libraryVars>>

\* render_multiple is called on a renderer that has looked up fewer than
\* MaxLookups views.
MaxLookups == 1

\* WidgetRenderer.render_multiple(requests, context, user_agent)
render_multiple(requests, context, user_agent) ==
    /\ Len(get_view_log) < MaxLookups
    /\ LET done == RenderMultiple(injector_config, view_cache, instances, requests, context,
                                  user_agent) IN
         /\ view_cache' = done.cache
         /\ instances' = done.oid
         /\ get_view_log' = get_view_log \o done.log
         /\ render_result' = [NoRenderResult EXCEPT
                                  !.op = "render_multiple",
                                  !.context = context,
                                  !.user_agent = user_agent,
                                  !.requests = requests,
                                  !.html = done.html]
    /\ UNCHANGED injector_config
    /\ UNCHANGED <<dispatchVars, widgetVars, libraryVars>>

\* Longest request list of render_multiple.
MaxRequests == 3

\* The request lists of render_multiple: up to MaxRequests requests, each of
\* one of two widgets in the list or the detail context.
RequestLists ==
    UNION {[1..n -> {ViewRequest(context, widget) :
                         context \in {"list", "detail"}, widget \in RenderWidgets}] :
               n \in 0..MaxRequests}

\* The user agents of render requests: none, a phone, a desktop browser.
RenderUserAgents ==
    {NoUserAgent,
     UserAgent(<<[w |-> "iphone", upper |-> TRUE]>>),
     UserAgent(<<[w |-> "windows nt", upper |-> TRUE], [w |-> "chrome", upper |-> TRUE]>>)}

DeviceNext ==
    \/ \E user_agent \in UserAgents : detect(user_agent)
    \/ \E context \in ViewContexts : \E user_agent \in UserAgents :
           resolve(context, user_agent)
    \/ \E widget \in RenderWidgets : default_view_render(widget)

RenderMultipleNext ==
    \E requests \in RequestLists : \E context \in {None, "list"} :
        \E user_agent \in {NoUserAgent, UserAgent(<<[w |-> "iphone", upper |-> TRUE]>>)} :
            render_multiple(requests, context, user_agent)

RendererNext ==
    \E context \in ViewContexts : \E widget \in RenderWidgets :
        \E user_agent \in RenderUserAgents : render(context, widget, user_agent)

----------------------------------------------------------------------------
(* The widget server with its renderer: /ui and /render *)

\* get_view_context(view_type, user_agent): f"{view_type}_{device_type}"
get_view_context(view_type, user_agent) ==
    IF view_type = "list"
    THEN (IF detect_device_type(user_agent) = "mobile" THEN "list_mobile"
          ELSE "list_desktop")
    ELSE (IF detect_device_type(user_agent) = "mobile" THEN "detail_mobile"
          ELSE "detail_desktop")

\* GET /ui?view=..: the page of the composite context; the root endpoint
\* serves the same page for the list view.
widget_ui(view, user_agent) ==
    /\ widget_response' =
           [NoWidgetResponse EXCEPT
                !.endpoint = "/ui",
                !.status_code = 200,
                !.html = <<"<!DOCTYPE html>",
                           get_view_context(IF view \in {"list", "detail"} THEN view
                                            ELSE "list",
                                            user_agent)>>]
    /\ UNCHANGED <<providers, activity_timeline, appended>>
    /\ UNCHANGED <<dispatchVars, rendererVars, libraryVars>>

\* A WidgetCard as the views read it: each string is a text of one piece.
AsText(widget) ==
    [id |-> <<widget.id>>, title |-> <<widget.title>>, content |-> <<widget.content>>,
     service_name |-> <<widget.service_name>>, tool_name |-> <<widget.tool_name>>,
     actions |-> [i \in 1..Len(widget.actions) |-> [label |-> <<widget.actions[i].label>>]],
     card_type |-> <<widget.card_type>>]

\* POST /render with body {"widgets": widgets_data, "context": context_str}:
\* a context string that is no ViewContext stands for list; the widgets are
\* parsed as /create parses them (every action entry of the bodies is a
\* dict); the renderer of the server renders them in the one context.
render_widgets(widgets_data, context_str, user_agent) ==
    /\ Len(get_view_log) < MaxLookups
    /\ IF \A i \in 1..Len(widgets_data) : widgets_data[i].timestamp.valid
       THEN LET context == IF context_str \in ViewContexts THEN context_str ELSE "list"
                requests == [i \in 1..Len(widgets_data) |->
                                 ViewRequest(context, AsText(ParseWidget(widgets_data[i])))]
                done == RenderMultiple(injector_config, view_cache, instances, requests,
                                       context, user_agent)
            IN /\ view_cache' = done.cache
               /\ instances' = done.oid
               /\ get_view_log' = get_view_log \o done.log
               /\ widget_response' = [NoWidgetResponse EXCEPT !.endpoint = "/render",
                                                              !.status_code = 200,
                                                              !.html = done.html]
       ELSE /\ widget_response' = [NoWidgetResponse EXCEPT !.endpoint = "/render",
                                                           !.status_code = 500]
            /\ UNCHANGED <<view_cache, instances, get_view_log>>
    /\ UNCHANGED <<providers, activity_timeline, appended>>
    /\ UNCHANGED <<injector_config, render_result>>
    /\ UNCHANGED <<dispatchVars, libraryVars>>

\* Bodies of POST /create and entries of POST /render: two records of one
\* id with different actions, a record of another id, and a body whose
\* timestamp is no ISO string.
ServerWidgetDicts ==
    {to_dict([NewWidgetCard("w2", "T", 2) EXCEPT !.actions = <<Actions1>>]),
     to_dict([NewWidgetCard("w2", "T", 3) EXCEPT !.actions = <<Actions2, Actions1>>]),
     to_dict(NewWidgetCard("w1", "T", 1)),
     [id |-> "w2", timestamp |-> [valid |-> FALSE, t |-> 0]]}

ServerNext ==
    \/ /\ Len(appended) < MaxActionCreates
       /\ \E widget_dict \in ServerWidgetDicts : create_widget(widget_dict)
    \/ \E widget_id \in WidgetIds : \E action_index \in 0..1 :
           execute_action(widget_id, action_index)
    \/ \E limit \in 1..MaxLimit : get_timeline(limit, NoSince)
    \/ \E view \in {"list", "detail", "grid"} :
           \E user_agent \in {NoUserAgent, UserAgent(<<[w |-> "iphone", upper |-> TRUE]>>)} :
               widget_ui(view, user_agent)
    \/ \E widgets_data \in {<<d>> : d \in ServerWidgetDicts} \cup {<< >>} :
           \E context_str \in {"list", "bogus"} :
               render_widgets(widgets_data, context_str, NoUserAgent)

----------------------------------------------------------------------------
(* handler.py: McpToolHandler.validate *)

\* Python values by their type; a string is the sequence of its characters.
StrValue(s) == [py |-> "str", s |-> s]
NoneValue == [py |-> "NoneType", s |-> << >>]
IntValue == [py |-> "int", s |-> << >>]
ListValue == [py |-> "list", s |-> << >>]

Exception(type, detail) == [type |-> type, status_code |-> 0, detail |-> detail]

\* isinstance(e, ValueError): ValueError and its subclasses.
IsValueError(e) == e.type \in {"ValueError", "UnicodeDecodeError"}

\* str.strip(): leading and trailing whitespace removed.
Whitespace == {" ", "\t", "\n"}

RECURSIVE LStrip(_)
LStrip(s) ==
    IF s = << >> \/ Head(s) \notin Whitespace THEN s ELSE LStrip(Tail(s))

RECURSIVE RStrip(_)
RStrip(s) ==
    IF s = << >> \/ s[Len(s)] \notin Whitespace
    THEN s
    ELSE RStrip(SubSeq(s, 1, Len(s) - 1))

Strip(s) == RStrip(LStrip(s))

\* Lines 122-131: the checks of tool_name; << >> when the name passes.
ToolNameError(name) ==
    IF name.py = "NoneType" THEN <<".tool_name returned None">>
    ELSE IF name.py # "str"
    THEN <<".tool_name returned ", name.py, ", expected str">>
    ELSE IF Strip(name.s) = << >> THEN <<".tool_name returned empty string">>
    ELSE << >>

\* Lines 141-178: the checks of tool_schema, in the order of the code; << >>
\* when the schema passes.
ToolSchemaError(schema, name) ==
    IF schema.py = "NoneType" THEN <<".tool_schema returned None">>
    ELSE IF schema.py # "dict"
    THEN <<".tool_schema returned ", schema.py, ", expected dict">>
    ELSE IF "name" \notin DOMAIN schema.d
    THEN <<".tool_schema missing required field 'name'">>
    ELSE IF schema.d["name"].py # "str" \/ Strip(schema.d["name"].s) = << >>
    THEN <<".tool_schema['name'] must be a non-empty string">>
    ELSE IF "description" \notin DOMAIN schema.d
    THEN <<".tool_schema missing required field 'description'">>
    ELSE IF schema.d["description"].py # "str"
    THEN <<".tool_schema['description'] must be a string">>
    ELSE IF "inputSchema" \notin DOMAIN schema.d
    THEN <<".tool_schema missing required field 'inputSchema'">>
    ELSE IF schema.d["inputSchema"].py # "dict"
    THEN <<".tool_schema['inputSchema'] must be a dict">>
    ELSE IF schema.d["name"].s # name.s
    THEN <<": tool_name '">> \o name.s \o <<"' does not match tool_schema['name'] '">>
             \o schema.d["name"].s \o <<"'">>
    ELSE << >>

\* The outcome of validate(): what it did, and the properties it read, in
\* order.
ValidateOutcome(outcome, reads) == [outcome |-> outcome, reads |-> reads]

\* validate() without the two except clauses: what a property raised goes to
\* the caller as it is.
ReraiseUnchanged(e, property) == Raises(e)

\* Lines 132-137 and 179-185: a ValueError is raised again as it is, any
\* other exception is replaced by a ValueError that names it.
Reraise(e, property) ==
    IF IsValueError(e)
    THEN Raises(e)
    ELSE Raises(Exception("ValueError",
                          <<property, " raised ", e.type, ": ">> \o Str(e)))

\* McpToolHandler.validate, lines 105-185.
Validate(handler) ==
    LET name == handler.tool_name
        schema == handler.tool_schema
    IN IF name.kind = "raised"
       THEN ValidateOutcome(Reraise(name.exc, ".tool_name"), <<"tool_name">>)
       ELSE IF ToolNameError(name.value) # << >>
       THEN ValidateOutcome(Raises(Exception("ValueError", ToolNameError(name.value))),
                            <<"tool_name">>)
       ELSE IF schema.kind = "raised"
       THEN ValidateOutcome(Reraise(schema.exc, ".tool_schema"),
                            <<"tool_name", "tool_schema">>)
       ELSE IF ToolSchemaError(schema.value, name.value) # << >>
       THEN ValidateOutcome(
                Raises(Exception("ValueError",
                                 ToolSchemaError(schema.value, name.value))),
                <<"tool_name", "tool_schema">>)
       ELSE ValidateOutcome(Returns(None), <<"tool_name", "tool_schema">>)

NoValidateResult ==
    [called |-> FALSE,
     handler |-> [tool_name |-> Returns(NoneValue), tool_schema |-> Returns(NoneValue)],
     outcome |-> NoOutcome,
     reads |-> << >>]

\* A call of validate() on an implementation.
validate(handler) ==
    /\ validate_result' = [called |-> TRUE, handler |-> handler,
                           outcome |-> Validate(handler).outcome,
                           reads |-> Validate(handler).reads]
    /\ UNCHANGED <<dispatchVars, widgetVars, rendererVars, mapperVars, discovered>>

\* What reading a property of an implementation may do.
PropertyRaises ==
    {Raises(Exception(type, <<"bad">>)) :
        type \in {"ValueError", "UnicodeDecodeError", "KeyError"}}

NameStrings == {<< >>, <<" ">>, <<"e">>, <<" ", "e">>}

ToolNameReads ==
    {Returns(v) : v \in {NoneValue, IntValue} \cup {StrValue(s) : s \in NameStrings}}
        \cup PropertyRaises

SchemaFieldValues(key) ==
    IF key = "name" THEN {IntValue} \cup {StrValue(s) : s \in NameStrings}
    ELSE IF key = "description" THEN {NoneValue, StrValue(<< >>)}
    ELSE {ListValue, Dict(EmptyDict)}

SchemaDicts ==
    UNION {{d \in [keys -> UNION {SchemaFieldValues(k) : k \in keys}] :
                \A k \in keys : d[k] \in SchemaFieldValues(k)} :
           keys \in SUBSET {"name", "description", "inputSchema"}}

ToolSchemaReads ==
    {Returns(v) : v \in {NoneValue, ListValue} \cup {Dict(d) : d \in SchemaDicts}}
        \cup PropertyRaises

HandlerNext ==
    \E name \in ToolNameReads : \E schema \in ToolSchemaReads :
        validate([tool_name |-> name, tool_schema |-> schema])

----------------------------------------------------------------------------
(* exceptions.py: ExceptionMapper *)

INVALID_PARAMS == -32602
NOT_FOUND == -32001

\* Number of register calls on one mapper.
MaxRegisters == 3

\* d[key] = value of a dict.
SetItem(d, key, value) ==
    [k \in DOMAIN d \cup {key} |-> IF k = key THEN value ELSE d[k]]

\* message_formatter(exc): the formatter applied to the exception.
Format(message_formatter, exc) == <<message_formatter, "(">> \o Str(exc) \o <<")">>

ErrorData(code, message) == [code |-> code, message |-> message]

NoMcpError ==
    [called |-> FALSE, exception |-> NoException, error |-> ErrorData(0, << >>),
     registered |-> << >>]

MapperInit ==
    /\ mappings = EmptyDict
    /\ custom_handlers = EmptyDict
    /\ registered = << >>
    /\ mcp_error = NoMcpError

\* ExceptionMapper.register, lines 46-67.
register(exception_type, error_code, message_formatter) ==
    /\ Len(registered) < MaxRegisters
    /\ IF message_formatter # None
       THEN /\ custom_handlers' =
                   SetItem(custom_handlers, exception_type,
                           [error_code |-> error_code,
                            message_formatter |-> message_formatter])
            /\ UNCHANGED mappings
       ELSE /\ mappings' = SetItem(mappings, exception_type, error_code)
            /\ UNCHANGED custom_handlers
    /\ registered' = Append(registered,
                            [exception_type |-> exception_type,
                             error_code |-> error_code,
                             message_formatter |-> message_formatter])
    /\ UNCHANGED <<mcp_error, validate_result, discovered>>
    /\ UNCHANGED <<dispatchVars, widgetVars, rendererVars>>

\* ExceptionMapper.to_mcp_error, lines 69-94.
ToMcpError(handlers_, mappings_, exception) ==
    LET exc_type == exception.type
    IN IF exc_type \in DOMAIN handlers_
       THEN ErrorData(handlers_[exc_type].error_code,
                      Format(handlers_[exc_type].message_formatter, exception))
       ELSE IF exc_type \in DOMAIN mappings_
       THEN ErrorData(mappings_[exc_type], Str(exception))
       ELSE ErrorData(INTERNAL_ERROR, <<"Internal error: ">> \o Str(exception))

to_mcp_error(exception) ==
    /\ mcp_error' = [called |-> TRUE, exception |-> exception,
                     error |-> ToMcpError(custom_handlers, mappings, exception),
                     registered |-> registered]
    /\ UNCHANGED <<mappings, custom_handlers, registered, validate_result, discovered>>
    /\ UNCHANGED <<dispatchVars, widgetVars, rendererVars>>

MappedTypes == {"ValueError", "KeyError"}

MapperNext ==
    \/ \E exception_type \in MappedTypes :
           \E error_code \in {INVALID_PARAMS, NOT_FOUND} :
               \E message_formatter \in {None, "describe"} :
                   register(exception_type, error_code, message_formatter)
    \/ \E type \in MappedTypes \cup {"RuntimeError"} :
           to_mcp_error(Exception(type, <<"bad">>))

----------------------------------------------------------------------------
(* server.py: _discover_handlers; widget_server.py: _discover_providers *)

\* An identifier is the sequence of its characters.
WordHandler == <<"H", "a", "n", "d", "l", "e", "r">>
WordProvider == <<"P", "r", "o", "v", "i", "d", "e", "r">>
WordEcho == <<"E", "c", "h", "o">>
WordImpl == <<"I", "m", "p", "l">>

\* str.lower() on the characters of the identifiers of this model.
LowerChar(c) ==
    CASE c = "A" -> "a" [] c = "E" -> "e" [] c = "H" -> "h" [] c = "I" -> "i"
      [] c = "P" -> "p" [] c = "X" -> "x" [] OTHER -> c

LowerCase(s) == [i \in 1..Len(s) |-> LowerChar(s[i])]

\* str.replace(old, ""): every occurrence of old removed, left to right.
RECURSIVE Remove(_, _)
Remove(s, old) ==
    IF Len(s) < Len(old) THEN s
    ELSE IF SubSeq(s, 1, Len(old)) = old
    THEN Remove(SubSeq(s, Len(old) + 1, Len(s)), old)
    ELSE <<Head(s)>> \o Remove(Tail(s), old)

\* Only an occurrence of old at the end removed.
RemoveSuffix(s, old) ==
    IF Len(s) >= Len(old) /\ SubSeq(s, Len(s) - Len(old) + 1, Len(s)) = old
    THEN SubSeq(s, 1, Len(s) - Len(old))
    ELSE s

\* A class: its __name__, whether it is a subclass of the interface, what
\* injector.inject does for it and what reading the name property of the
\* instance (tool_name, widget_name) does.
Class(name, implements, inject, name_read) ==
    [name |-> name, implements |-> implements, inject |-> inject,
     name_read |-> name_read]

\* The interface itself, and the absent registration.
InterfaceClass ==
    Class(<<"I", "n", "t", "e", "r", "f", "a", "c", "e">>, TRUE,
          Raises(Exception("TypeError", <<"abstract">>)), Returns(NoneValue))
NoClass == Class(<< >>, FALSE, Returns(None), Returns(NoneValue))

\* Lines 119-124 (server.py), 103-106 (widget_server.py): the name of a
\* temporary instance; raised when the instance cannot be made or the name
\* cannot be read.
TempName(class) ==
    IF class.inject.kind = "raised" THEN class.inject ELSE class.name_read

\* Lines 125-131 (server.py), 107-112 (widget_server.py): the key a class gets
\* when its name cannot be had.
FallbackName(class, suffix) == Remove(LowerCase(class.name), LowerCase(suffix))

\* Lines 116-131: the loop over the implementations of reflective discovery.
RECURSIVE Reflective(_, _, _)
Reflective(implementations, suffix, handlers_) ==
    IF implementations = << >> THEN handlers_
    ELSE LET class == Head(implementations)
             key == IF TempName(class).kind = "raised"
                    THEN FallbackName(class, suffix)
                    ELSE TempName(class).value.s
         IN Reflective(Tail(implementations), suffix, SetItem(handlers_, key, class))

\* Lines 136-157: the scan of the registered types.
RECURSIVE ManualScan(_, _)
ManualScan(registrations, handlers_) ==
    IF registrations = << >> THEN handlers_
    ELSE LET abstract_type == Head(registrations).abstract_type
             concrete == Head(registrations).concrete
             found ==
                 IF abstract_type = InterfaceClass
                 THEN IF concrete # NoClass /\ concrete.implements
                         /\ TempName(concrete).kind = "returned"
                      THEN SetItem(handlers_, TempName(concrete).value.s, concrete)
                      ELSE handlers_
                 ELSE IF abstract_type.implements
                         /\ TempName(abstract_type).kind = "returned"
                 THEN SetItem(handlers_, TempName(abstract_type).value.s,
                              abstract_type)
                 ELSE handlers_
         IN ManualScan(Tail(registrations), found)

\* The result of a discovery: the mapping, what the reflective strategy had
\* put in it, and whether the registrations were scanned.
Discovery(handlers_, reflective, scanned) ==
    [handlers |-> handlers_, reflective |-> reflective, scanned |-> scanned]

\* A discovery that scans the registrations whatever reflection found.
DiscoverAlwaysScanning(config, suffix) ==
    LET reflective ==
            IF config.discover_implementations = "returns"
            THEN Reflective(config.implementations, suffix, EmptyDict)
            ELSE EmptyDict
    IN Discovery(ManualScan(config.registrations, reflective), reflective, TRUE)

\* _discover_handlers, lines 99-165; _discover_providers, lines 88-140.
Discover(config, suffix) ==
    LET reflective ==
            IF config.discover_implementations = "returns"
            THEN Reflective(config.implementations, suffix, EmptyDict)
            ELSE EmptyDict
    IN IF reflective = EmptyDict
       THEN Discovery(ManualScan(config.registrations, EmptyDict), reflective, TRUE)
       ELSE Discovery(reflective, reflective, FALSE)

\* Discovery runs once, from __init__ (server.py:94, widget_server.py:83).
NoDiscovery ==
    [called |-> FALSE, suffix |-> << >>,
     config |-> [discover_implementations |-> "absent", implementations |-> << >>,
                 registrations |-> << >>],
     result |-> Discovery(EmptyDict, EmptyDict, FALSE)]

discover_handlers(config) ==
    /\ ~discovered.called
    /\ discovered' = [called |-> TRUE, suffix |-> WordHandler, config |-> config,
                      result |-> Discover(config, WordHandler)]
    /\ UNCHANGED <<validate_result, mapperVars>>
    /\ UNCHANGED <<dispatchVars, widgetVars, rendererVars>>

discover_providers(config) ==
    /\ ~discovered.called
    /\ discovered' = [called |-> TRUE, suffix |-> WordProvider, config |-> config,
                      result |-> Discover(config, WordProvider)]
    /\ UNCHANGED <<validate_result, mapperVars>>
    /\ UNCHANGED <<dispatchVars, widgetVars, rendererVars>>

\* The classes of one package: a class that works, one whose instance cannot
\* be made, and two whose name cannot be read, with the suffix once in the
\* middle and twice in the identifier.
DiscoveredClasses(suffix) ==
    {Class(WordEcho \o suffix, TRUE, Returns(None), Returns(StrValue(<<"e">>))),
     Class(<<"A">> \o suffix, TRUE, Raises(Exception("TypeError", <<"bad">>)),
           Returns(StrValue(<<"a">>))),
     Class(WordEcho \o suffix \o WordImpl, TRUE, Returns(None),
           Raises(Exception("KeyError", <<"bad">>))),
     Class(suffix \o <<"X">> \o suffix, TRUE, Returns(None),
           Raises(Exception("KeyError", <<"bad">>)))}

\* Number of implementations, and of registrations, of one configuration.
MaxClasses == 2

ClassLists(classes) ==
    UNION {{l \in [1..n -> classes] : \A i, j \in 1..n : l[i] = l[j] => i = j} :
           n \in 0..MaxClasses}

Registrations(suffix) ==
    {[abstract_type |-> InterfaceClass, concrete |-> c] :
         c \in DiscoveredClasses(suffix) \cup {NoClass}}
      \cup {[abstract_type |-> c, concrete |-> c] : c \in DiscoveredClasses(suffix)}

DiscoveryConfigs(suffix) ==
    [discover_implementations : {"absent", "raises", "returns"},
     implementations : ClassLists(DiscoveredClasses(suffix)),
     registrations : ClassLists(Registrations(suffix))]

DiscoveryNext ==
    \/ \E config \in DiscoveryConfigs(WordHandler) : discover_handlers(config)
    \/ \E config \in DiscoveryConfigs(WordProvider) : discover_providers(config)

LibraryInit ==
    /\ validate_result = NoValidateResult
    /\ MapperInit
    /\ discovered = NoDiscovery

----------------------------------------------------------------------------
(* Specifications *)

vars == <<dispatchVars, widgetVars, rendererVars, libraryVars>>

EmptyConfig == [registrations |-> << >>, implementations |-> << >>]
Init == DispatchInit /\ WidgetInit /\ RendererInitWith(EmptyConfig) /\ LibraryInit

\* The tool server.
Next == DispatchNext
Spec == Init /\ [][Next]_vars

\* The widget server, with a short activity timeline.
NextWidgets == WidgetNext
SpecWidgets == Init /\ [][NextWidgets]_vars

\* The tool server with observability on and the default metrics collector.
InitPrometheus ==
    /\ DispatchInitWith("PrometheusMetricsCollector")
    /\ enable_observability
    /\ WidgetInit
    /\ RendererInitWith(EmptyConfig)
    /\ LibraryInit
NextPrometheus == DispatchNext
SpecPrometheus == InitPrometheus /\ [][NextPrometheus]_vars

\* The renderer, the views and the device detection, under each configuration
\* of the injector.
InitRenderer ==
    /\ DispatchInit
    /\ ~enable_observability
    /\ WidgetInit
    /\ \E c \in Configs : RendererInitWith(c)
    /\ LibraryInit
NextRenderer == RendererNext
SpecRenderer == InitRenderer /\ [][NextRenderer]_vars

\* render_multiple of the renderer, under each configuration of the injector.
NextRenderMultiple == RenderMultipleNext
SpecRenderMultiple == InitRenderer /\ [][NextRenderMultiple]_vars

\* The device detection, the context resolution and the default view, as
\* functions applied to every input.
InitDevice == Init /\ ~enable_observability
NextDevice == DeviceNext
SpecDevice == InitDevice /\ [][NextDevice]_vars

\* The widget server with all its endpoints.
NextServer == ServerNext
SpecServer == Init /\ [][NextServer]_vars

\* Implementations of McpToolHandler under validate().
NextHandler == HandlerNext
SpecHandler == Init /\ [][NextHandler]_vars

\* One ExceptionMapper under register and to_mcp_error.
NextMapper == MapperNext
SpecMapper == Init /\ [][NextMapper]_vars

\* Discovery of handlers and of providers over the configurations of the injector.
NextDiscovery == DiscoveryNext
SpecDiscovery == Init /\ [][NextDiscovery]_vars

\* The widget server under POST /create and POST /action.
NextActions == ActionNext
SpecActions == Init /\ [][NextActions]_vars

\* The widget server under a long run of POST /create.
NextLog == LogNext
SpecLog == Init /\ [][NextLog]_vars

----------------------------------------------------------------------------
(* Properties of the dispatch layer *)

Done(r) == pc[r] = "done"
Dispatched(r) == r \in execute_tool_calls
UnknownTool(r) == Dispatched(r) /\ request[r].tool_name \notin {"echo", "fail"}
HandlerRaised(r) == handler_outcome[r].kind = "raised"
HandlerReturned(r) == handler_outcome[r].kind = "returned"

\* s occurs in t as a run of consecutive pieces.
Carries(t, s) ==
    \E k \in 0..(Len(t) - Len(s)) : SubSeq(t, k + 1, k + Len(s)) = s

NotFoundText(tool_name) == <<"404", ": ", "Tool '", tool_name, "' not found">>

\* C1 as stated: a request for a name that is not in the registry is answered
\* with status 404 under each of the three framings, the handler is not
\* invoked and the registry is unchanged.
C1_UnknownToolIs404InEveryFraming ==
    \A r \in Requests :
        (Done(r) /\ UnknownTool(r)) =>
            /\ response[r].status_code = 404
            /\ r \notin handle_calls
            /\ DOMAIN handlers = {"echo", "fail"}

\* C1 as amended: for a name that is not in the registry _execute_tool raises
\* the 404 without invoking the handler and the registry is unchanged; the
\* simple framing answers 404, the streamed framing answers 200 with the
\* single frame {"error": "404: Tool '<name>' not found"}, the enveloped
\* framing answers 200 with an error envelope of code -32603 whose message is
\* "404: Tool '<name>' not found".
C1_UnknownToolPerFraming ==
    \A r \in Requests :
        (Done(r) /\ UnknownTool(r)) =>
            /\ r \notin handle_calls
            /\ handler_outcome[r].kind = "none"
            /\ handlers = [n \in {"echo", "fail"} |->
                              IF n = "echo" THEN "EchoHandlerImpl" ELSE "FailingHandlerImpl"]
            /\ request[r].framing = "simple" =>
                   /\ response[r].status_code = 404
                   /\ response[r].detail = <<"Tool '", request[r].tool_name, "' not found">>
            /\ request[r].framing = "sse" =>
                   /\ response[r].status_code = 200
                   /\ Len(response[r].frames) = 1
                   /\ response[r].frames[1].kind = "error"
                   /\ response[r].frames[1].payload.error
                          = NotFoundText(request[r].tool_name)
            /\ request[r].framing = "jsonrpc" =>
                   /\ response[r].status_code = 200
                   /\ DOMAIN response[r].body = {"jsonrpc", "id", "error"}
                   /\ response[r].body.error.code = -32603
                   /\ response[r].body.error.message = NotFoundText(request[r].tool_name)

C1_Witness ==
    \E r1, r2 \in Requests :
        /\ Done(r1) /\ UnknownTool(r1) /\ request[r1].framing = "sse"
        /\ Done(r2) /\ UnknownTool(r2) /\ request[r2].framing = "jsonrpc"

Started == {r \in Requests : pc[r] # "idle"}

\* The caller of r was told of a failure, in the way of its framing.
CallerSawError(r) ==
    \/ request[r].framing = "simple" /\ response[r].status_code >= 400
    \/ /\ request[r].framing = "sse"
       /\ Len(response[r].frames) > 0
       /\ response[r].frames[Len(response[r].frames)].kind = "error"
    \/ request[r].framing = "jsonrpc" /\ "error" \in DOMAIN response[r].body

\* The one execution of a behaviour in which a single request was made, when
\* observability is on and its handler raised.
OneFailedExecution(r) ==
    /\ enable_observability
    /\ Started = {r}
    /\ Done(r)
    /\ HandlerRaised(r)

\* C3 as stated: with observability on, one execution whose handler raises
\* leaves exactly one tool-execution record, with status error and the type
\* name of the raised exception, and exactly one span mcp.tool.<name>, with
\* status ERROR and a description that is not empty; the caller is told.
C3_FailedExecutionRecordedNonEmpty ==
    \A r \in Requests :
        OneFailedExecution(r) =>
            /\ Len(metrics.tool_executions) = 1
            /\ metrics.tool_executions[1].tool_name = request[r].tool_name
            /\ metrics.tool_executions[1].status = "error"
            /\ metrics.tool_executions[1].error_type = handler_outcome[r].exc.type
            /\ Len(tracing.spans) = 1
            /\ tracing.span[tracing.spans[1]].name = <<"mcp.tool.", request[r].tool_name>>
            /\ tracing.span[tracing.spans[1]].status = "ERROR"
            /\ ~tracing.span[tracing.spans[1]].status_description.is_none
            /\ tracing.span[tracing.spans[1]].status_description.s # << >>
            /\ CallerSawError(r)

\* C3 as amended: the description of the span is the string form of the
\* raised exception, which is empty when the exception has no message; the
\* rest is as stated.
C3_FailedExecutionRecorded ==
    \A r \in Requests :
        OneFailedExecution(r) =>
            /\ Len(metrics.tool_executions) = 1
            /\ metrics.tool_executions[1].tool_name = request[r].tool_name
            /\ metrics.tool_executions[1].status = "error"
            /\ metrics.tool_executions[1].error_type = handler_outcome[r].exc.type
            /\ Len(tracing.spans) = 1
            /\ tracing.span[tracing.spans[1]].name = <<"mcp.tool.", request[r].tool_name>>
            /\ tracing.span[tracing.spans[1]].status = "ERROR"
            /\ ~tracing.span[tracing.spans[1]].status_description.is_none
            /\ tracing.span[tracing.spans[1]].status_description.s
                   = Str(handler_outcome[r].exc)
            /\ tracing.active_spans = << >>
            /\ CallerSawError(r)

C3_Witness ==
    \E r \in Requests :
        /\ OneFailedExecution(r)
        /\ handler_outcome[r].exc.type = "RuntimeError"
        /\ Len(metrics.tool_executions) = 1
        /\ Len(tracing.spans) = 1

\* The list a successful execute returned to the endpoint of r.
ExecuteResults(r) ==
    IF request[r].framing = "sse" THEN gen[r].results ELSE response[r].body.result

ExecuteSucceeded(r) ==
    /\ HandlerReturned(r)
    /\ request[r].framing = "sse" \/ Done(r)

\* C4 as stated: a successful execute returns one dictionary per item of the
\* handler, in order, and each has a type key and a text key, for raw objects
\* and for dictionaries alike.
C4_EveryResultHasTypeAndText ==
    \A r \in Requests :
        ExecuteSucceeded(r) =>
            /\ Len(ExecuteResults(r)) = Len(handler_outcome[r].value)
            /\ \A i \in 1..Len(ExecuteResults(r)) :
                   {"type", "text"} \subseteq DOMAIN ExecuteResults(r)[i]

\* C4 as amended: a successful execute returns one element per item of the
\* handler, in order; the element of a raw object is a dictionary with
\* exactly the keys type and text (the object's type attribute, or "text";
\* the object's text attribute, or its str()); a dictionary returned by the
\* handler is passed through unchanged, with whatever keys it has.
C4_ResultsConverted ==
    \A r \in Requests :
        ExecuteSucceeded(r) =>
            /\ Len(ExecuteResults(r)) = Len(handler_outcome[r].value)
            /\ \A i \in 1..Len(ExecuteResults(r)) :
                   LET item == handler_outcome[r].value[i]
                       result == ExecuteResults(r)[i]
                   IN IF item.py = "dict"
                      THEN result = item.d
                      ELSE /\ DOMAIN result = {"type", "text"}
                           /\ result["type"] = IF "type" \in DOMAIN item.d
                                               THEN item.d["type"] ELSE "text"
                           /\ result["text"] = IF "text" \in DOMAIN item.d
                                               THEN item.d["text"] ELSE item.str

C4_Witness ==
    \E r \in Requests :
        /\ ExecuteSucceeded(r) /\ request[r].framing = "simple"
        /\ \E i, j \in 1..Len(handler_outcome[r].value) :
               /\ handler_outcome[r].value[i].py = "object"
               /\ handler_outcome[r].value[j].py = "dict"
               /\ "text" \notin DOMAIN handler_outcome[r].value[j].d

----------------------------------------------------------------------------
(* Properties of the activity timeline *)

\* C5: the activity timeline never holds more than 1000 records, and it holds
\* exactly the most recently appended records, in the order of their appends:
\* once it is full, each append evicts the oldest record.
C5_TimelineIsLastThousand ==
    /\ Len(activity_timeline) <= 1000
    /\ Len(activity_timeline) = IF Len(appended) < 1000 THEN Len(appended) ELSE 1000
    /\ activity_timeline
           = SubSeq(appended, Len(appended) - Len(activity_timeline) + 1, Len(appended))

C5_Witness ==
    /\ Len(appended) = 1001
    /\ Len(activity_timeline) = 1000
    /\ activity_timeline[1] = appended[2]
    /\ activity_timeline[1000] = appended[1001]

TimelineAnswered == widget_response.endpoint = "/timeline"

\* C6: GET /timeline returns at most limit records, for every limit, 0
\* included.
C6_TimelineAtMostLimit ==
    TimelineAnswered => Len(widget_response.widgets) <= widget_response.limit

\* C7: no two records of a GET /timeline response have the same id.
C7_TimelineIdsUnique ==
    TimelineAnswered =>
        \A i, j \in 1..Len(widget_response.widgets) :
            i # j => widget_response.widgets[i].id # widget_response.widgets[j].id

\* A response of several records, computed while an id occurred twice in the
\* activity timeline and in both providers.
C7_Witness ==
    /\ TimelineAnswered
    /\ Len(widget_response.widgets) >= 2
    /\ widget_response.since = NoSince
    /\ \E i, j \in 1..Len(activity_timeline) :
           i # j /\ activity_timeline[i].id = "w1" /\ activity_timeline[j].id = "w1"

\* C8: with a since timestamp, every record of a GET /timeline response has a
\* timestamp after since, records of the activity timeline included.
C8_TimelineAfterSince ==
    (TimelineAnswered /\ widget_response.since # NoSince) =>
        \A i \in 1..Len(widget_response.widgets) :
            widget_response.widgets[i].timestamp > widget_response.since

----------------------------------------------------------------------------
(* Properties of the streamed and of the enveloped framing *)

Frames(r) == response[r].frames
LastFrame(r) == Frames(r)[Len(Frames(r))]
Streamed(r) == request[r].framing = "sse" /\ Dispatched(r)

\* The frames before the last one are the data frames of the first results,
\* in order.
DataFramesFirst(r) ==
    \A k \in 1..(Len(Frames(r)) - 1) :
        /\ k <= Len(gen[r].results)
        /\ Frames(r)[k] = DataFrame(gen[r].results[k])

\* C9 as stated: a stream that has ended consists of one data frame per
\* result, in order, and then one terminal frame, which is [DONE] when
\* dispatch succeeded and an error frame when it failed.
C9_DoneWheneverDispatchSucceeded ==
    \A r \in Requests :
        (Streamed(r) /\ Done(r)) =>
            /\ DataFramesFirst(r)
            /\ IF HandlerReturned(r)
               THEN /\ Len(Frames(r)) = Len(gen[r].results) + 1
                    /\ LastFrame(r) = DoneFrame
               ELSE /\ Len(Frames(r)) = 1
                    /\ LastFrame(r).kind = "error"

\* The first result that json.dumps cannot encode, or one past the last.
RECURSIVE FirstNotSerializable(_, _)
FirstNotSerializable(results, k) ==
    IF k > Len(results) THEN k
    ELSE IF \E key \in DOMAIN results[k] : results[k][key] = Bytes THEN k
    ELSE FirstNotSerializable(results, k + 1)

\* C9 as amended: every frame of a stream but its last is the data frame of
\* the result at its position, a terminal frame is the last frame of a stream
\* that has ended, and there is exactly one.  The terminal frame is [DONE],
\* after one data frame per result, when dispatch succeeded and every result
\* could be encoded as JSON; it is an error frame carrying str(e), and the
\* only frame, when dispatch failed; and it is an error frame after the data
\* frames of the results before the first one that cannot be encoded, when
\* dispatch succeeded and some result cannot be encoded.  [DONE] is never
\* emitted for a failed dispatch.
C9_StreamFrames ==
    \A r \in Requests :
        Streamed(r) =>
            /\ DataFramesFirst(r)
            /\ \A k \in 1..Len(Frames(r)) :
                   Frames(r)[k].kind \in {"done", "error"} => (k = Len(Frames(r)) /\ Done(r))
            /\ Done(r) =>
                   /\ Len(Frames(r)) >= 1
                   /\ IF ~HandlerReturned(r)
                      THEN /\ Len(Frames(r)) = 1
                           /\ LastFrame(r).kind = "error"
                           /\ LastFrame(r).payload.error
                                  = IF HandlerRaised(r)
                                    THEN Str(TranslateException(handler_outcome[r].exc))
                                    ELSE NotFoundText(request[r].tool_name)
                      ELSE LET n == FirstNotSerializable(gen[r].results, 1) IN
                           /\ Len(Frames(r)) = n
                           /\ IF n > Len(gen[r].results)
                              THEN LastFrame(r) = DoneFrame
                              ELSE LastFrame(r).kind = "error"

\* A stream of a successful dispatch that ended with an error frame after a
\* data frame.
C9_Witness ==
    \E r \in Requests :
        /\ Streamed(r) /\ Done(r) /\ HandlerReturned(r)
        /\ Len(Frames(r)) = 2
        /\ Frames(r)[1].kind = "data"
        /\ Frames(r)[2].kind = "error"

Enveloped(r) == request[r].framing = "jsonrpc" /\ Dispatched(r) /\ Done(r)

\* C10: a JSON-RPC request that reached dispatch is answered, with status 200,
\* by an envelope whose jsonrpc is "2.0", whose id is the request's id (null
\* when the request has none), and which has a result and no error when
\* dispatch succeeded, an error of code -32603 and no result when it failed.
C10_JsonRpcEnvelope ==
    \A r \in Requests :
        Enveloped(r) =>
            /\ response[r].status_code = 200
            /\ response[r].body.jsonrpc = "2.0"
            /\ response[r].body.id
                   = IF request[r].id = NoField THEN Null ELSE request[r].id
            /\ IF HandlerReturned(r)
               THEN DOMAIN response[r].body = {"jsonrpc", "id", "result"}
               ELSE /\ DOMAIN response[r].body = {"jsonrpc", "id", "error"}
                    /\ response[r].body.error.code = -32603

\* A failed dispatch answered by an error envelope carrying the request's id.
C10_Witness ==
    \E r \in Requests :
        /\ Enveloped(r) /\ HandlerRaised(r)
        /\ request[r].id = "req-7"
        /\ response[r].body.id = "req-7"
        /\ "error" \in DOMAIN response[r].body

----------------------------------------------------------------------------
(* Properties of the envelope validation and of the metrics *)

Rejected(r) ==
    /\ request[r].framing = "jsonrpc"
    /\ request[r].method \notin {NoField, request[r].tool_name}

\* The requests whose tool execution has ended, by a return or by a raise.
Executed == {q \in Requests : handler_outcome[q].kind # "none"}

\* C11: a JSON-RPC request whose method field is present and differs from the
\* tool name of the path is answered 400 before dispatch: _execute_tool and
\* the handler are not called for it, and it leaves no span and no
\* tool-execution record (the records are those of the executions that
\* ended); a JSON-RPC request without a method field is dispatched.
C11_MethodMismatchRejected ==
    /\ \A r \in Requests :
           Rejected(r) =>
               /\ Done(r)
               /\ response[r].status_code = 400
               /\ response[r].detail = <<"Method name mismatch">>
               /\ ~Dispatched(r)
               /\ r \notin handle_calls
               /\ handler_outcome[r].kind = "none"
               /\ tracing.span[r] = NoSpan
               /\ \A i \in 1..Len(tracing.spans) : tracing.spans[i] # r
    /\ enable_observability => Len(metrics.tool_executions) = Cardinality(Executed)
    /\ \A r \in Requests :
           (request[r].framing = "jsonrpc" /\ request[r].method = NoField) => Dispatched(r)

\* One request was rejected for its method while another, sent without a
\* method field, was executed and recorded.
C11_Witness ==
    \E r1, r2 \in Requests :
        /\ enable_observability
        /\ Rejected(r1) /\ Done(r1)
        /\ request[r2].framing = "jsonrpc" /\ request[r2].method = NoField
        /\ Done(r2) /\ r2 \in handle_calls
        /\ Len(metrics.tool_executions) = 1

InProgress(tool_name) ==
    {r \in Requests : pc[r] = "in_handler" /\ request[r].tool_name = tool_name}

ExecutedWith(tool_name, kind) ==
    {r \in Requests : handler_outcome[r].kind = kind /\ request[r].tool_name = tool_name}

\* C12: with observability on and the Prometheus collector, the
\* active-requests gauge of every tool equals the number of its executions in
\* progress, so it is never negative; and the executions of the tool that
\* ended account for exactly one request-counter increment and one duration
\* observation each, under success when the handler returned and under error
\* when it raised.
C12_ActiveGauge ==
    (enable_observability /\ metrics.collector = "PrometheusMetricsCollector") =>
        \A n \in DOMAIN handlers :
            /\ metrics.active_requests[n] = Cardinality(InProgress(n))
            /\ metrics.active_requests[n] >= 0
            /\ metrics.requests_total[n]["success"] = Cardinality(ExecutedWith(n, "returned"))
            /\ metrics.requests_total[n]["error"] = Cardinality(ExecutedWith(n, "raised"))
            /\ metrics.duration_observations[n] = metrics.requests_total[n]
            /\ metrics.errors_total[n] = Cardinality(ExecutedWith(n, "raised"))

\* Two executions of a tool overlapped: one has raised while the other is
\* still in its handler.
C12_Witness ==
    \E r1, r2 \in Requests :
        /\ metrics.collector = "PrometheusMetricsCollector"
        /\ r1 \in ExecutedWith("fail", "raised")
        /\ r2 \in InProgress("fail")
        /\ metrics.active_requests["fail"] = 1
        /\ metrics.requests_total["fail"]["error"] = 1

FailedDispatch(r) == Dispatched(r) /\ Done(r) /\ ~HandlerReturned(r)

\* The endpoint under which the HTTP record of r is written.
EndpointOf(r) ==
    Endpoint(request[r].tool_name,
             IF request[r].framing = "sse" THEN <<"/sse">>
             ELSE IF request[r].framing = "jsonrpc" THEN <<"/jsonrpc">>
             ELSE << >>)

\* The sink holds an error record for the tool or for the endpoint of r.
HasErrorRecord(r) ==
    \/ \E i \in 1..Len(metrics.tool_executions) :
           /\ metrics.tool_executions[i].tool_name = request[r].tool_name
           /\ metrics.tool_executions[i].status = "error"
    \/ \E j \in 1..Len(metrics.http_requests) :
           /\ metrics.http_requests[j].endpoint = EndpointOf(r)
           /\ metrics.http_requests[j].status_code >= 400

\* C13: with observability on, every failed dispatch (unknown name or handler
\* exception), under each of the three framings, is reported to the caller
\* and leaves an error record in the metrics sink: a tool-execution record
\* with status error or an HTTP record with a status code of 400 or more.
C13_FailedDispatchRecorded ==
    (enable_observability /\ metrics.collector = "TestMetricsCollector") =>
        \A r \in Requests :
            FailedDispatch(r) => (CallerSawError(r) /\ HasErrorRecord(r))

----------------------------------------------------------------------------
(* Properties of the widget actions and of the wire form of a widget *)

ActionAnswered == widget_response.endpoint = "/action"

\* The records of the activity timeline with the id POST /action was asked for.
Asked == {i \in 1..Len(activity_timeline) :
              activity_timeline[i].id = widget_response.widget_id}

\* C14: POST /action/{id} answers 404 when no record of the activity timeline
\* has the id; for a record with n actions it answers 400 for every
\* action_index outside 0..n-1 and, for an index inside, 200 with the method,
\* url and payload of the action at that position.
C14_ActionAnswer ==
    ActionAnswered =>
        IF Asked = {} THEN widget_response.status_code = 404
        ELSE LET actions == activity_timeline[CHOOSE i \in Asked : \A j \in Asked : i <= j].actions
                 k == widget_response.action_index
             IN IF k < 0 \/ k >= Len(actions)
                THEN widget_response.status_code = 400
                ELSE /\ widget_response.status_code = 200
                     /\ widget_response.action = [method |-> actions[k + 1].method,
                                                  url |-> actions[k + 1].url,
                                                  payload |-> actions[k + 1].payload]

CreateAnswered == widget_response.endpoint = "/create" /\ widget_response.status_code = 200

\* C20: when POST /create is given the dictionary to_dict made of a widget
\* record, the record it appends to the activity timeline is that record: the
\* same id, title, content, timestamp, service name, tool name, actions (in
\* order, with their six fields), metadata, card type and icon.
C20_ToDictRoundTrip ==
    CreateAnswered =>
        \A w \in Cards :
            to_dict(w) = widget_response.widget_dict =>
                /\ activity_timeline[Len(activity_timeline)] = w
                /\ ParseWidget(to_dict(w)) = w

\* A record with two actions, one of them with a payload and a confirmation,
\* and with metadata went through to_dict and POST /create.
C20_Witness ==
    /\ CreateAnswered
    /\ \E w \in Cards :
           /\ to_dict(w) = widget_response.widget_dict
           /\ Len(w.actions) = 2
           /\ w.actions[1].confirm
           /\ w.metadata # EmptyDict
           /\ activity_timeline[Len(activity_timeline)].actions = w.actions

----------------------------------------------------------------------------
(* Properties of the device detection, the renderer and the views *)

Detected == render_result.op = "detect_device_type"
Resolved == render_result.op = "resolve_context"

\* C17: detect_device_type returns "mobile" for exactly the user agent strings
\* that match the mobile pattern set, also when the string matches the
\* desktop pattern set as well, and "desktop" for an absent user agent, for
\* the empty string and for every string that matches neither set; the
\* result is a function of the user agent alone.
C17_DetectDeviceType ==
    Detected =>
        LET user_agent == render_result.user_agent
            device_type == render_result.device_type
            mobile == user_agent.present /\ Search(MOBILE_PATTERNS, user_agent.s)
            desktop == user_agent.present /\ Search(DESKTOP_PATTERNS, user_agent.s)
        IN  /\ device_type \in {"mobile", "desktop"}
            /\ device_type = "mobile" <=> mobile
            /\ (mobile /\ desktop) => device_type = "mobile"
            /\ ~user_agent.present => device_type = "desktop"
            /\ user_agent.s = << >> => device_type = "desktop"
            /\ (~mobile /\ ~desktop) => device_type = "desktop"

\* A string in mixed capitalisation that matches both pattern sets was
\* classified as mobile.
C17_Witness ==
    /\ Detected
    /\ render_result.user_agent
           = UserAgent(<<[w |-> "windows nt", upper |-> TRUE], [w |-> "mobile", upper |-> TRUE]>>)
    /\ Search(DESKTOP_PATTERNS, render_result.user_agent.s)
    /\ render_result.device_type = "mobile"

\* C18: resolve_context returns its input when the input is one of the four
\* composite tags or one of mobile, desktop, default, whatever the user
\* agent; for list and detail it returns the composite tag of that kind and
\* of the device type detected for the user agent, desktop when the user
\* agent is absent; its result is never the bare list or detail tag.
C18_ResolveContext ==
    Resolved =>
        LET context == render_result.context
            user_agent == render_result.user_agent
            resolved == render_result.resolved_context
            mobile == user_agent.present /\ Search(MOBILE_PATTERNS, user_agent.s)
        IN  /\ context \in {"list_mobile", "list_desktop", "detail_mobile", "detail_desktop",
                            "mobile", "desktop", "default"} => resolved = context
            /\ (context = "list" /\ mobile) => resolved = "list_mobile"
            /\ (context = "list" /\ ~mobile) => resolved = "list_desktop"
            /\ (context = "detail" /\ mobile) => resolved = "detail_mobile"
            /\ (context = "detail" /\ ~mobile) => resolved = "detail_desktop"
            /\ resolved \notin {"list", "detail"}

\* The list tag was resolved without a user agent, to the desktop list tag.
C18_Witness ==
    /\ Resolved
    /\ render_result.context = "list"
    /\ ~render_result.user_agent.present
    /\ render_result.resolved_context = "list_desktop"

\* C15: after any sequence of get_view calls on one renderer, any two calls
\* whose contexts resolve to the same tag returned the identical view
\* instance, and the cache entry written for a tag still holds the instance
\* that was written first: it is neither replaced nor removed.
C15_ViewCache ==
    \A i \in 1..Len(get_view_log) :
        /\ view_cache[get_view_log[i].resolved_context] = get_view_log[i].view
        /\ get_view_log[i].view # NoView
        /\ \A j \in 1..Len(get_view_log) :
               get_view_log[i].resolved_context = get_view_log[j].resolved_context
                   => get_view_log[i].view = get_view_log[j].view

\* A tag was requested, then another, then the first again: the third call
\* returned the instance the first call had made, which is no singleton of
\* the injector.
C15_Witness ==
    /\ Len(get_view_log) = 3
    /\ get_view_log[1].resolved_context = get_view_log[3].resolved_context
    /\ get_view_log[1].resolved_context # get_view_log[2].resolved_context
    /\ get_view_log[1].view.oid >= 1
    /\ get_view_log[3].view = get_view_log[1].view
    /\ instances = 2

Rendered == render_result.op = "render"

\* The classes the injector can provide whose view_context is the context.
RegisteredFor(context) ==
    {Candidates(injector_config)[i].class : i \in
         {k \in 1..Len(Candidates(injector_config)) :
              ViewContextOf(Candidates(injector_config)[k].class) = context}}

\* C16: when a view that reports the context list (or detail) is registered
\* in the injector, a render request with the context list (or detail) is
\* rendered by that view; the default view renders a request only when no
\* view is registered for the context of the request.
C16_RegisteredViewRenders ==
    (Rendered /\ render_result.context \in {"list", "detail"}) =>
        /\ RegisteredFor(render_result.context) # {}
               => render_result.view.class \in RegisteredFor(render_result.context)
        /\ render_result.view.class = "DefaultWidgetView"
               => RegisteredFor(render_result.context) = {}

DefaultRendered == render_result.op = "DefaultWidgetView.render"

\* The characters _escape_html replaces.
MarkupChars == {"&", "<", ">", "\"", "'"}

\* C19: the HTML DefaultWidgetView.render produces holds no unescaped markup
\* from the title or the content of the widget: none of the characters
\* & < > " ' of the two fields is in the output as it is, and a content of
\* <script>...</script> puts no <script> tag into the output.
C19_NoUnescapedMarkup ==
    DefaultRendered =>
        /\ \A i \in 1..Len(render_result.html) : render_result.html[i] \notin MarkupChars
        /\ ~Carries(render_result.html, <<"<", "script", ">">>)

----------------------------------------------------------------------------
(* Properties of the HTTP records *)

\* The requests whose handler has written its HTTP record: the streamed
\* framing writes it when the response is opened, the other two when the
\* request is answered.
Recorded ==
    {r \in Requests : Done(r) \/ (request[r].framing = "sse" /\ pc[r] # "idle")}

\* C27: with observability on, every request to a tool endpoint writes
\* exactly one HTTP record, and the status code of the record is the status
\* code returned to the client, also when the tool fails under the streamed
\* or the enveloped framing.
C27_HttpRecordMatchesResponse ==
    (enable_observability /\ metrics.collector = "TestMetricsCollector") =>
        /\ Len(metrics.http_requests) = Cardinality(Recorded)
        /\ \A r \in Recorded :
               \E j \in 1..Len(metrics.http_requests) :
                   /\ metrics.http_requests[j].endpoint = EndpointOf(r)
                   /\ metrics.http_requests[j].status_code = response[r].status_code

----------------------------------------------------------------------------
(* Properties of the spans *)

\* The spans that were opened and are not closed yet.
OpenSpans == {r \in Requests : tracing.span[r] # NoSpan /\ ~tracing.span[r].end_time}

\* The span the collector mutates: the last one of its list of active spans.
CurrentSpans ==
    IF tracing.active_spans = << >> THEN {}
    ELSE {tracing.active_spans[Len(tracing.active_spans)]}

\* C23: under any interleaving of two traced executions that overlap, the
\* open spans form a call stack: the collector's list of active spans holds
\* exactly the spans that are open, so that closing a span removes that span
\* and no other, and the span that receives the attribute, event and status
\* mutations is an open one, never one that was closed and recorded.
C23_SpansFormAStack ==
    /\ {tracing.active_spans[i] : i \in 1..Len(tracing.active_spans)} = OpenSpans
    /\ CurrentSpans \subseteq OpenSpans
    /\ \A r \in Requests :
           tracing.span[r].end_time => tracing.span[r].events = << >>

----------------------------------------------------------------------------
(* Properties of the timeline and of the actions together *)

\* The merged sequence the answered GET /timeline worked on.
Merged == AllWidgets(widget_response.limit, widget_response.since)

\* The positions of the records of an id in the merged sequence.
Occurrences(id) == {i \in 1..Len(Merged) : Merged[i].id = id}

\* C22 as stated: when the same id occurs in more than one record of the
\* merged sequence, the record GET /timeline returns for that id is its
\* first occurrence in the merged sequence, also when a later occurrence
\* carries a newer timestamp.
C22_FirstOccurrenceWins ==
    TimelineAnswered =>
        \A k \in 1..Len(widget_response.widgets) :
            LET occ == Occurrences(widget_response.widgets[k].id)
            IN widget_response.widgets[k] = Merged[CHOOSE i \in occ : \A j \in occ : i <= j]

\* C22 as amended: the record GET /timeline returns for an id is the
\* occurrence of the id with the newest timestamp in the merged sequence,
\* and the first of them in the merged sequence when several occurrences
\* carry that timestamp.
C22_NewestOccurrenceWins ==
    TimelineAnswered =>
        \A k \in 1..Len(widget_response.widgets) :
            LET occ == Occurrences(widget_response.widgets[k].id)
                newest == {i \in occ : \A j \in occ :
                               Merged[j].timestamp <= Merged[i].timestamp}
            IN  /\ newest # {}
                /\ widget_response.widgets[k]
                       = Merged[CHOOSE i \in newest : \A j \in newest : i <= j]

\* The id w1 occurred in the first provider with the oldest timestamp, in
\* the second provider and in the log with the newest one, and the response
\* holds the record of the second provider.
C22_Witness ==
    /\ TimelineAnswered
    /\ widget_response.since = NoSince
    /\ \E i \in 1..Len(activity_timeline) :
           activity_timeline[i].id = "w1" /\ activity_timeline[i].timestamp = 3
    /\ Cardinality(Occurrences("w1")) >= 3
    /\ \E k \in 1..Len(widget_response.widgets) :
           widget_response.widgets[k] = WidgetCard("w1", 3, "other_service")

----------------------------------------------------------------------------
(* Properties of render_multiple *)

RenderedMultiple == render_result.op = "render_multiple"

\* The first position of a context in the request list.
FirstPosition(requests, ctx) ==
    CHOOSE i \in 1..Len(requests) :
        /\ requests[i].context = ctx
        /\ \A j \in 1..Len(requests) : requests[j].context = ctx => i <= j

\* The contexts of the request list, ordered by their first position.
ContextsInOrder(requests) ==
    LET ctxs == {requests[i].context : i \in 1..Len(requests)}
    IN CHOOSE keys \in [1..Cardinality(ctxs) -> ctxs] :
           \A i, j \in 1..Cardinality(ctxs) :
               i < j => FirstPosition(requests, keys[i]) < FirstPosition(requests, keys[j])

\* The pieces of the output that open the card of one widget.
CardOpenings ==
    {"<div class=widget-card ", "<div class=widget-card mobile detail "}

\* C26: render_multiple without a shared context renders every request
\* exactly once, through the view resolved for the request's own context:
\* the requests are grouped by context, the groups are in the order of the
\* first occurrence of their context, the requests of a group are in their
\* input order, and the outputs of the groups are concatenated in that
\* order; the output for an empty request list is the empty string.
C26_RenderMultipleGroups ==
    (RenderedMultiple /\ render_result.context = None) =>
        LET requests == render_result.requests
            keys == ContextsInOrder(requests)
            group(ctx) == SelectSeq(requests, LAMBDA req : req.context = ctx)
            view(ctx) == view_cache[resolve_context(ctx, render_result.user_agent)]
        IN  /\ requests = << >> => render_result.html = << >>
            /\ requests # << >> =>
                   /\ \A k \in 1..Len(keys) : view(keys[k]) # NoView
                   /\ render_result.html
                          = Join([k \in 1..Len(keys) |->
                                      ViewRenderMultiple(view(keys[k]).class, group(keys[k]))])
            /\ Cardinality({i \in 1..Len(render_result.html) :
                                render_result.html[i] \in CardOpenings}) = Len(requests)

\* Three requests, the first and the third of one context and of different
\* widgets, the second of another context, were rendered by two views, one
\* of them a registered view.
C26_Witness ==
    /\ RenderedMultiple
    /\ render_result.context = None
    /\ Len(render_result.requests) = 3
    /\ render_result.requests[1].context = render_result.requests[3].context
    /\ render_result.requests[1].context # render_result.requests[2].context
    /\ render_result.requests[1].widget # render_result.requests[3].widget
    /\ Len(get_view_log) = 2
    /\ \E i \in 1..2 : get_view_log[i].view.class = "DetailMobileView"

----------------------------------------------------------------------------
(* Properties of the widget server as a whole *)

\* C28: GET /timeline and POST /action/{id} agree on the record an id
\* denotes: after any sequence of /create requests, several with one id
\* included, the action list /action/{id} indexes into is the action list
\* of the record /timeline returns for the id.
C28_TimelineAndActionAgree ==
    TimelineAnswered =>
        \A k \in 1..Len(widget_response.widgets) :
            LET i == FindWidget(widget_response.widgets[k].id)
            IN i # 0 => activity_timeline[i].actions = widget_response.widgets[k].actions

\* C29: only a successful POST /create changes the activity log: every other
\* request, a /create that fails while its body is parsed included, leaves
\* the records of the log and their order as they are, and no request
\* changes the provider registry.
C29_OnlyCreateChangesLog ==
    [][/\ providers' = providers
       /\ activity_timeline' # activity_timeline
              => (widget_response'.endpoint = "/create"
                      /\ widget_response'.status_code = 200)
       /\ (widget_response'.endpoint # "/create" \/ widget_response'.status_code # 200)
              => activity_timeline' = activity_timeline]_vars

\* A /create request failed on its timestamp while the log held the record
\* appended before, after a /render request, and the log still holds
\* exactly that record.
C29_Witness ==
    /\ widget_response.endpoint = "/create"
    /\ widget_response.status_code = 500
    /\ Len(appended) = 1
    /\ activity_timeline = appended
    /\ Len(get_view_log) = 1

----------------------------------------------------------------------------
(* C21 *)

\* The claim's own reading of a valid implementation: tool_name is a
\* non-blank string, tool_schema a dict whose name is a non-blank string equal
\* to tool_name, whose description is a string and whose inputSchema is a dict.
NonBlankString(read) ==
    /\ read.kind = "returned"
    /\ read.value.py = "str"
    /\ \E i \in 1..Len(read.value.s) : read.value.s[i] \notin Whitespace

ValidName(handler) == NonBlankString(handler.tool_name)

ValidSchema(handler) ==
    LET schema == handler.tool_schema
    IN /\ schema.kind = "returned"
       /\ schema.value.py = "dict"
       /\ {"name", "description", "inputSchema"} \subseteq DOMAIN schema.value.d
       /\ NonBlankString(Returns(schema.value.d["name"]))
       /\ schema.value.d["name"].s = handler.tool_name.value.s
       /\ schema.value.d["description"].py = "str"
       /\ schema.value.d["inputSchema"].py = "dict"

\* C21: validate() returns normally exactly when tool_name is a non-blank
\* string and tool_schema is a dict with a non-blank string name equal to
\* tool_name, a string description and a dict inputSchema; in every other
\* case, a property that raises included, it raises a ValueError and nothing
\* else, and a bad name is reported without the schema being read.
C21_ValidateRaisesOnlyValueError ==
    validate_result.called =>
        LET handler == validate_result.handler
            outcome == validate_result.outcome
        IN /\ outcome.kind = "returned"
                <=> (ValidName(handler) /\ ValidSchema(handler))
           /\ outcome.kind = "raised" => IsValueError(outcome.exc)
           /\ ~ValidName(handler) => validate_result.reads = <<"tool_name">>
           /\ ValidName(handler) =>
                  validate_result.reads = <<"tool_name", "tool_schema">>

\* validate() was called on an implementation whose name is fine and whose
\* tool_schema raises a KeyError, and raised a ValueError that names it.
C21_Witness ==
    /\ validate_result.called
    /\ ValidName(validate_result.handler)
    /\ validate_result.handler.tool_schema.kind = "raised"
    /\ validate_result.handler.tool_schema.exc.type = "KeyError"
    /\ validate_result.outcome.kind = "raised"
    /\ validate_result.outcome.exc.type = "ValueError"
    /\ validate_result.outcome.exc.detail[3] = "KeyError"

----------------------------------------------------------------------------
(* C30 *)

\* The most recent register call for a type before the conversion, if any.
LastRegistered(calls, type) ==
    LET at == {i \in 1..Len(calls) : calls[i].exception_type = type}
    IN IF at = {}
       THEN [exception_type |-> None, error_code |-> 0, message_formatter |-> None]
       ELSE calls[CHOOSE i \in at : \A j \in at : j <= i]

\* C30: after any sequence of register calls, to_mcp_error(e) is determined
\* by the most recent register call for the exact type of e: its error code,
\* and its message formatter if it gave one; it is INTERNAL_ERROR when the type
\* was never registered.
C30_MostRecentRegisterWins ==
    mcp_error.called =>
        LET e == mcp_error.exception
            last == LastRegistered(mcp_error.registered, e.type)
        IN IF last.exception_type = None
           THEN mcp_error.error.code = INTERNAL_ERROR
           ELSE /\ mcp_error.error.code = last.error_code
                /\ mcp_error.error.message =
                       IF last.message_formatter # None
                       THEN Format(last.message_formatter, e)
                       ELSE Str(e)

----------------------------------------------------------------------------
(* C24 *)

\* The classes a mapping holds.
Values(d) == {d[k] : k \in DOMAIN d}

Elements(l) == {l[i] : i \in 1..Len(l)}

\* C24: discovery returns the mapping of the reflective strategy whenever
\* that mapping is not empty, and scans the registrations only when reflective
\* discovery is unavailable, raised or produced no entry; the result is the
\* mapping of one strategy, never a mix of the two; an implementation whose
\* instance cannot be made or whose name cannot be read does not stop the
\* discovery, every implementation gets its entry.
C24_DiscoveryStrategies ==
    discovered.called =>
        LET config == discovered.config
            result == discovered.result
        IN /\ result.reflective # EmptyDict =>
                  result.handlers = result.reflective /\ ~result.scanned
           /\ result.scanned =>
                  \/ config.discover_implementations \in {"absent", "raises"}
                  \/ config.implementations = << >>
           /\ result.handlers \in {result.reflective,
                                   ManualScan(config.registrations, EmptyDict)}
           /\ config.discover_implementations = "returns" =>
                  Values(result.reflective) = Elements(config.implementations)

\* Reflective discovery found a class whose instance cannot be made, and the
\* registrations hold a working class that reflection did not return.
C24_Witness ==
    /\ discovered.called
    /\ discovered.config.discover_implementations = "returns"
    /\ \E class \in Elements(discovered.config.implementations) :
           class.inject.kind = "raised"
    /\ \E r \in Elements(discovered.config.registrations) :
           /\ r.concrete \notin Elements(discovered.config.implementations)
           /\ TempName(r.concrete).kind = "returned"
           /\ r.concrete.implements
    /\ Values(discovered.result.handlers) = Elements(discovered.config.implementations)

----------------------------------------------------------------------------
(* C25 *)

\* C25: in reflective discovery a class whose instance cannot be made or
\* whose name cannot be read is registered under its lower-cased identifier
\* with only the suffix at its end removed; other occurrences of the suffix
\* inside the identifier are kept.
C25_FallbackStripsOnlySuffix ==
    (discovered.called /\ discovered.config.discover_implementations = "returns") =>
        \A class \in Elements(discovered.config.implementations) :
            TempName(class).kind = "raised" =>
                LET key == RemoveSuffix(LowerCase(class.name),
                                        LowerCase(discovered.suffix))
                IN /\ key \in DOMAIN discovered.result.handlers
                   /\ discovered.result.handlers[key] = class

====
